---- MODULE Spec2Model ----
(***************************************************************************)
(* The stage/state orchestration engine of chatbot_main_raw:               *)
(* GenericStateMachine (generic_state_machine.py) with its guard rail      *)
(* rules, driven by a caller that owns the conversation turn counter.      *)
(***************************************************************************)
EXTENDS Integers, Sequences, FiniteSets, TLC

(***************************************************************************)
(* Bounds of the exploration.                                              *)
(***************************************************************************)
\* the caller's turn counter runs from 0 to MaxTurn
MaxTurn == 13
\* execute_transition calls the caller makes within one turn
MaxExecPerTurn == 2
\* longest sequence handed to SequenceRule in the pure-function specification
MaxSeqLen == 3
\* the turn counter of each conversation in the specification of the agents handler
MaxHandlerTurn == 4

(***************************************************************************)
(* Python helpers.                                                         *)
(***************************************************************************)
\* Optional[int]: None is <<>>, a value v is <<v>>
None == <<>>

Some(v) == <<v>>

\* truth value of an Optional[int]: None and 0 are falsy
Truthy(opt) == opt # None /\ opt[1] # 0

\* a local variable: value is computed once and body is given it
Bind(value, body(_)) == CHOOSE result \in { body(v) : v \in {value} } : TRUE

\* x in list
InList(x, list) == \E i \in 1..Len(list) : list[i] = x

\* list.index(x), 0-based, for x in list
IndexOf(x, list) == (CHOOSE i \in 1..Len(list) : list[i] = x /\ \A j \in 1..(i-1) : list[j] # x) - 1

\* dict.get(key, default)
Get(dict, key, default) == IF key \in DOMAIN dict THEN dict[key] ELSE default

\* name.startswith('content_'), on the names the configuration uses
StartsWithContent(name) ==
    name \in {"content_politics_tech", "content_psychology_society",
              "content_intro_pt", "content_intro_ps",
              "content_closure_pt", "content_closure_ps"}

(***************************************************************************)
(* The configuration document (prompts/state_machine.json): stages, the    *)
(* flat transition list and the inter-stage map.                           *)
(***************************************************************************)
Stages ==
    [ onboarding |->
        [ states |-> <<"init_greeting", "engagement_hook", "stimulus_present",
                       "conversation_repair", "comfort_user", "onboarding_closure">>,
          mandatory_sequence |-> <<"init_greeting", "engagement_hook", "stimulus_present">>,
          golden_path |-> <<"init_greeting", "engagement_hook", "stimulus_present">>,
          derailing_states |-> <<"conversation_repair">>,
          closure_states |-> <<"onboarding_closure">>,
          min_turns |-> 2,
          max_turns |-> 12,
          guard_rails |-> [ allow_sequence_skip |-> FALSE,
                            allow_backward |-> FALSE,
                            force_closure_after_max_turns |-> TRUE,
                            max_derailing_time |-> 3,
                            force_golden_path_return |-> TRUE ] ],
      stage_selection |->
        [ states |-> <<"stage_selection">> ],
      content_politics_tech |->
        [ states |-> <<"content_intro_pt", "technology_deep_dive", "politics_deep_dive",
                       "content_closure_pt">>,
          closure_states |-> <<"content_closure_pt">>,
          relative_turns |-> TRUE,
          max_turns_in_stage |-> 2 ],
      content_psychology_society |->
        [ states |-> <<"content_intro_ps", "content_closure_ps">>,
          closure_states |-> <<"content_closure_ps">>,
          relative_turns |-> TRUE,
          max_turns_in_stage |-> 2 ],
      offboarding |->
        [ states |-> <<"offboarding_summary">>,
          closure_states |-> <<>> ] ]

\* a source is a state name or '*' ([str |-> ...]) or a list of names ([list |-> ...])
TransitionsConfig ==
    << [trigger |-> "proceed_normally", source |-> [str |-> "init_greeting"], dest |-> "engagement_hook"],
       [trigger |-> "engage_user", source |-> [list |-> <<"init_greeting", "engagement_hook">>], dest |-> "stimulus_present"],
       [trigger |-> "re_engage", source |-> [str |-> "stimulus_present"], dest |-> "engagement_hook"],
       [trigger |-> "need_repair", source |-> [list |-> <<"engagement_hook", "stimulus_present", "comfort_user">>], dest |-> "conversation_repair"],
       [trigger |-> "comfort_needed", source |-> [list |-> <<"stimulus_present", "conversation_repair">>], dest |-> "comfort_user"],
       [trigger |-> "restart_engagement", source |-> [str |-> "conversation_repair"], dest |-> "engagement_hook"],
       [trigger |-> "emergency_closure", source |-> [str |-> "*"], dest |-> "onboarding_closure"],
       [trigger |-> "proceed_to_stage_selection", source |-> [list |-> <<"onboarding_closure", "content_closure_pt", "content_closure_ps">>], dest |-> "stage_selection"],
       [trigger |-> "choose_politics_tech", source |-> [str |-> "stage_selection"], dest |-> "content_intro_pt"],
       [trigger |-> "choose_psychology_society", source |-> [str |-> "stage_selection"], dest |-> "content_intro_ps"],
       [trigger |-> "finish_all_content", source |-> [str |-> "stage_selection"], dest |-> "stage_completion_review"],
       [trigger |-> "start_politics", source |-> [str |-> "content_intro_pt"], dest |-> "politics_deep_dive"],
       [trigger |-> "start_technology", source |-> [str |-> "content_intro_pt"], dest |-> "technology_deep_dive"],
       [trigger |-> "explore_politics", source |-> [str |-> "technology_deep_dive"], dest |-> "politics_deep_dive"],
       [trigger |-> "finish_content", source |-> [str |-> "politics_deep_dive"], dest |-> "content_closure_pt"],
       [trigger |-> "finish_content", source |-> [str |-> "content_intro_ps"], dest |-> "content_closure_ps"] >>

\* config['inter_stage_transitions']: the choice map of stage_selection
InterStageTransitionsConfig ==
    [ stage_selection |-> [ choose_politics_tech |-> "content_politics_tech",
                            choose_psychology_society |-> "content_psychology_society",
                            finish_all_content |-> "offboarding" ] ]

TriggerDescriptions == [ emergency_closure |-> "Force end conversation" ]

\* config['current_stage'] and config['initial_state']
ConfigCurrentStage == "onboarding"

ConfigInitialState == "init_greeting"

(***************************************************************************)
(* Guard rail rules.  A rule is a record tagged with its class; check      *)
(* returns the verdict and the context dict as the rule leaves it.         *)
(***************************************************************************)
SequenceRule(sequence, allow_skip, allow_backward) ==
    [ kind |-> "SequenceRule", sequence |-> sequence,
      allow_skip |-> allow_skip, allow_backward |-> allow_backward ]

TurnLimitRule(min_turns, max_turns, closure_states, force_closure, stage_relative, max_turns_in_stage) ==
    [ kind |-> "TurnLimitRule", min_turns |-> min_turns, max_turns |-> max_turns,
      closure_states |-> closure_states, force_closure |-> force_closure,
      stage_relative |-> stage_relative, max_turns_in_stage |-> max_turns_in_stage ]

AbsoluteClosureRule(closure_state, min_turn_for_closure) ==
    [ kind |-> "AbsoluteClosureRule", closure_state |-> closure_state,
      min_turn_for_closure |-> min_turn_for_closure ]

GoldenPathRule(golden_path, derailing_states, max_derailing_time, force_return) ==
    [ kind |-> "GoldenPathRule", golden_path |-> golden_path,
      derailing_states |-> derailing_states,
      max_derailing_time |-> max_derailing_time, force_return |-> force_return ]

\* SequenceRule.check with the skip test off by one: the next state counts as a skip
SequenceRuleCheck_SkipOffByOne(rule, current_state, dest_state) ==
    IF ~InList(current_state, rule.sequence) \/ ~InList(dest_state, rule.sequence)
    THEN TRUE
    ELSE LET current_idx == IndexOf(current_state, rule.sequence)
             dest_idx == IndexOf(dest_state, rule.sequence)
         IN  IF dest_idx < current_idx /\ ~rule.allow_backward THEN FALSE
             ELSE IF dest_idx > current_idx /\ ~rule.allow_skip THEN FALSE
             ELSE TRUE

\* SequenceRule.check: list.index raises ValueError for a state outside the sequence
SequenceRuleCheck(rule, current_state, dest_state) ==
    IF ~InList(current_state, rule.sequence) \/ ~InList(dest_state, rule.sequence)
    THEN TRUE
    ELSE LET current_idx == IndexOf(current_state, rule.sequence)
             dest_idx == IndexOf(dest_state, rule.sequence)
         IN  IF dest_idx < current_idx /\ ~rule.allow_backward THEN FALSE
             ELSE IF dest_idx > current_idx + 1 /\ ~rule.allow_skip THEN FALSE
             ELSE TRUE

\* the destinations TurnLimitRule.check lets through past turn 12
InterStageAllowList == <<"stage_selection", "content_intro_pt", "content_intro_ps">>

\* turns_in_stage of TurnLimitRule.check
TurnsInStage(turn_counter, context) == turn_counter - Get(context, "stage_start_turn", 0)

TurnLimitRuleCheck_DeadlineDeniesClosure(rule, current_state, dest_state, turn_counter, context) ==
    LET turns_in_stage == TurnsInStage(turn_counter, context)
        current_stage == Get(context, "current_stage", "onboarding")
    IN  IF rule.stage_relative /\ Truthy(rule.max_turns_in_stage)
        THEN IF turns_in_stage > rule.max_turns_in_stage[1] /\ InList(dest_state, rule.closure_states)
             THEN FALSE
             ELSE TRUE
        ELSE IF Truthy(rule.min_turns) /\ turn_counter < rule.min_turns[1]
                /\ InList(dest_state, rule.closure_states)
             THEN FALSE
             ELSE IF turn_counter >= 12 /\ rule.closure_states # <<>> /\ current_stage = "onboarding"
             THEN IF InList(dest_state, InterStageAllowList) THEN TRUE
                  ELSE FALSE
             ELSE IF Truthy(rule.max_turns) /\ turn_counter >= rule.max_turns[1] /\ rule.force_closure
                     /\ ~InList(dest_state, rule.closure_states)
             THEN FALSE
             ELSE TRUE

TurnLimitRuleCheck(rule, current_state, dest_state, turn_counter, context) ==
    LET turns_in_stage == TurnsInStage(turn_counter, context)
        current_stage == Get(context, "current_stage", "onboarding")
    IN  IF rule.stage_relative /\ Truthy(rule.max_turns_in_stage)
        THEN IF turns_in_stage > rule.max_turns_in_stage[1] /\ InList(dest_state, rule.closure_states)
             THEN FALSE
             ELSE TRUE
        ELSE IF Truthy(rule.min_turns) /\ turn_counter < rule.min_turns[1]
                /\ InList(dest_state, rule.closure_states)
             THEN FALSE
             ELSE IF turn_counter >= 12 /\ rule.closure_states # <<>> /\ current_stage = "onboarding"
             THEN IF InList(dest_state, rule.closure_states) THEN TRUE
                  ELSE IF InList(dest_state, InterStageAllowList) THEN TRUE
                  ELSE FALSE
             ELSE IF Truthy(rule.max_turns) /\ turn_counter >= rule.max_turns[1] /\ rule.force_closure
                     /\ ~InList(dest_state, rule.closure_states)
             THEN FALSE
             ELSE TRUE

\* GoldenPathRule.check: the verdict, and the context with the derailing start it may record
GoldenPathRuleCheck(rule, current_state, dest_state, turn_counter, context) ==
    IF dest_state = "onboarding_closure" /\ turn_counter >= 10
    THEN [ok |-> TRUE, context |-> context]
    ELSE IF InList(current_state, rule.golden_path) /\ InList(dest_state, rule.derailing_states)
    THEN [ok |-> TRUE, context |-> ("derailing_start_turn" :> turn_counter) @@ context]
    ELSE IF InList(current_state, rule.derailing_states) /\ rule.force_return
            /\ turn_counter - Get(context, "derailing_start_turn", turn_counter) >= rule.max_derailing_time
            /\ ~InList(dest_state, rule.golden_path) /\ dest_state # "onboarding_closure"
    THEN [ok |-> FALSE, context |-> context]
    ELSE [ok |-> TRUE, context |-> context]

\* AbsoluteClosureRule.check: both branches return True
AbsoluteClosureRuleCheck(rule, current_state, dest_state, turn_counter) ==
    IF dest_state = rule.closure_state /\ turn_counter >= rule.min_turn_for_closure
    THEN TRUE
    ELSE TRUE

\* rule.check(current_state, dest_state, turn_counter, context)
RuleCheck(rule, current_state, dest_state, turn_counter, context) ==
    CASE rule.kind = "SequenceRule" ->
            [ok |-> SequenceRuleCheck(rule, current_state, dest_state), context |-> context]
      [] rule.kind = "TurnLimitRule" ->
            [ok |-> TurnLimitRuleCheck(rule, current_state, dest_state, turn_counter, context), context |-> context]
      [] rule.kind = "AbsoluteClosureRule" ->
            [ok |-> AbsoluteClosureRuleCheck(rule, current_state, dest_state, turn_counter), context |-> context]
      [] rule.kind = "GoldenPathRule" ->
            GoldenPathRuleCheck(rule, current_state, dest_state, turn_counter, context)

\* rule.get_reason()
GetReason(rule) ==
    CASE rule.kind = "SequenceRule" -> <<"Sequence rule violation">>
      [] rule.kind = "TurnLimitRule" -> <<"Turn limit rule">>
      [] rule.kind = "AbsoluteClosureRule" -> <<"Absolute closure rule">>
      [] rule.kind = "GoldenPathRule" -> <<"Golden path rule">>

\* _setup_guard_rails: the rules appended for a stage configuration, in the order of
\* the appends
SetupGuardRailsOf(stage_config) ==
    LET guard_config == Get(stage_config, "guard_rails", <<>>)
        closure_states == Get(stage_config, "closure_states", <<"onboarding_closure">>)
        sequence_rules ==
            IF "mandatory_sequence" \in DOMAIN stage_config
            THEN << SequenceRule(stage_config.mandatory_sequence,
                                 Get(guard_config, "allow_sequence_skip", FALSE),
                                 Get(guard_config, "allow_backward", FALSE)) >>
            ELSE <<>>
        turn_limit_rules ==
            IF "min_turns" \in DOMAIN stage_config \/ "max_turns" \in DOMAIN stage_config
               \/ Get(stage_config, "relative_turns", FALSE)
            THEN << TurnLimitRule(
                        IF "min_turns" \in DOMAIN stage_config THEN Some(stage_config.min_turns) ELSE None,
                        IF "max_turns" \in DOMAIN stage_config THEN Some(stage_config.max_turns) ELSE None,
                        closure_states,
                        Get(guard_config, "force_closure_after_max_turns", FALSE),
                        Get(stage_config, "relative_turns", FALSE),
                        IF "max_turns_in_stage" \in DOMAIN stage_config
                        THEN Some(stage_config.max_turns_in_stage) ELSE None) >>
            ELSE <<>>
        absolute_closure_rules ==
            IF closure_states # <<>>
            THEN << AbsoluteClosureRule(closure_states[1], 10) >>
            ELSE <<>>
        golden_path_rules ==
            IF "golden_path" \in DOMAIN stage_config /\ "derailing_states" \in DOMAIN stage_config
            THEN << GoldenPathRule(stage_config.golden_path, stage_config.derailing_states,
                                   Get(guard_config, "max_derailing_time", 3),
                                   Get(guard_config, "force_golden_path_return", TRUE)) >>
            ELSE <<>>
    IN  sequence_rules \o turn_limit_rules \o absolute_closure_rules \o golden_path_rules

\* _setup_guard_rails of a machine whose current stage is stage
SetupGuardRails(stage) == SetupGuardRailsOf(Get(Stages, stage, <<>>))

(***************************************************************************)
(* GenericStateMachine.                                                    *)
(***************************************************************************)
VARIABLES
    state,              \* self.state, the current state
    current_stage,      \* self.current_stage
    states,             \* self.states, the state list of the active stage
    config_stages,      \* the stage names of self.config['stages']
    stage_start_turn,   \* self.stage_start_turn
    completed_stages,   \* self.completed_stages
    guard_rails,        \* self.guard_rails
    transition_cache,   \* self._transition_cache: cache key -> returned list
    last_cache_turn,    \* self._last_cache_turn
    turn,               \* the caller's conversation turn counter
    execs_in_turn,      \* execute_transition calls made in the current turn
    call,               \* the last call made on the machine and what it returned
    derailing_since,    \* history: the turn at which the machine left the golden path
    last_switch_turn,   \* history: the turn passed to the last successful stage switch
    seq_in,             \* SequenceRule specification: the rule and the two states
    seq_out,            \* SequenceRule specification: what check returned
    rule_in,            \* decision rule specifications: the context handed to evaluate_decision or to a rule
    rule_out,           \* decision rule specifications: the decision or the trigger returned
    agent,              \* the last LLMDecisionAgent.next_action: what it decided and executed
    conversational_agents,  \* ConversationalAgentsHandler.conversational_agents: user id -> agent
    guard_in,           \* guard rail specification: the stage configuration and the transition asked about
    guard_out,          \* guard rail specification: what the rules of that stage answered
    calls               \* the instruct calls in flight on one agent: where each one stands

machine_vars == <<state, current_stage, states, stage_start_turn, completed_stages,
                  guard_rails, transition_cache, last_cache_turn>>

vars == <<config_stages, state, current_stage, states, stage_start_turn, completed_stages,
          guard_rails, transition_cache, last_cache_turn, turn, execs_in_turn, call,
          derailing_since, last_switch_turn, seq_in, seq_out, rule_in, rule_out, agent,
          conversational_agents, guard_in, guard_out, calls>>

\* the GenericStateMachine object: the fields the operations below read and write
Self ==
    [ state |-> state, current_stage |-> current_stage, stage_start_turn |-> stage_start_turn,
      states |-> states, guard_rails |-> guard_rails, completed_stages |-> completed_stages,
      cache |-> transition_cache, last |-> last_cache_turn,
      config_stages |-> config_stages ]

\* the trigger names of the configuration
ConfigTriggers == { TransitionsConfig[i].trigger : i \in 1..Len(TransitionsConfig) }

\* inter_stage_mappings of execute_transition: trigger -> (target stage, target state)
InterStageMappings ==
    [ proceed_to_stage_selection |-> <<"stage_selection", "stage_selection">>,
      choose_politics_tech |-> <<"content_politics_tech", "content_intro_pt">>,
      choose_psychology_society |-> <<"content_psychology_society", "content_intro_ps">>,
      finish_all_content |-> <<"offboarding", "stage_completion_review">> ]

\* The states of the Machine built in __init__.  Its trigger methods stay bound to the
\* model: a Machine built later for the same model does not replace an attribute the
\* model already has, so every trigger dispatches to this first Machine.
MachineStates ==
    { Stages[ConfigCurrentStage].states[i] : i \in 1..Len(Stages[ConfigCurrentStage].states) }
        \cup {ConfigInitialState}

\* source == '*' or source == self.state or (isinstance(source, list) and self.state in source)
SourceMatches(source, current_state) ==
    IF "str" \in DOMAIN source
    THEN source.str = "*" \/ source.str = current_state
    ELSE InList(current_state, source.list)

\* get_trigger_description
GetTriggerDescription(trigger) == Get(TriggerDescriptions, trigger, "Trigger")

RECURSIVE CheckRules(_, _, _, _, _, _)
\* the loop of is_transition_allowed from rule i on: the first denying rule ends it
CheckRules(rules, i, current_state, dest_state, turn_counter, context) ==
    IF i > Len(rules)
    THEN [allowed |-> TRUE, reason |-> <<"Transition allowed">>]
    ELSE LET r == RuleCheck(rules[i], current_state, dest_state, turn_counter, context)
         IN  IF ~r.ok
             THEN [allowed |-> FALSE, reason |-> GetReason(rules[i])]
             ELSE CheckRules(rules, i + 1, current_state, dest_state, turn_counter, r.context)

\* is_transition_allowed(dest_state, turn_counter, context): "context or {}" makes a
\* new dict of a missing or empty context
\* (GuardRailContext is the dict it hands to the rules)
\* the stage context is_transition_allowed adds for the guard rails
GuardRailContext(stage, start_turn, context) ==
    ("stage_start_turn" :> start_turn) @@ ("current_stage" :> stage) @@ context

IsTransitionAllowed(rules, current_state, stage, start_turn, dest_state, turn_counter, context) ==
    CheckRules(rules, 1, current_state, dest_state, turn_counter,
               GuardRailContext(stage, start_turn, context))

\* no context argument
NoContext == <<>>

\* one entry of the list get_available_transitions builds
TransitionEntry(transition, rules, current_state, stage, start_turn, completed, turn_counter) ==
    LET trigger == transition.trigger
        dest_state == transition.dest
        stage_selection_config == Get(InterStageTransitionsConfig, "stage_selection", <<>>)
        target_stage == Get(stage_selection_config, trigger, "")
        stage_blocked == /\ stage = "stage_selection"
                         /\ target_stage # ""
                         /\ StartsWithContent(target_stage)
                         /\ InList(target_stage, completed)
        verdict == IsTransitionAllowed(rules, current_state, stage, start_turn,
                                       dest_state, turn_counter, NoContext)
        allowed == IF stage_blocked THEN FALSE ELSE verdict.allowed
        reason == IF stage_blocked
                  THEN <<"Stage already completed in this session", target_stage>>
                  ELSE verdict.reason
    IN  [ trigger |-> trigger, source |-> transition.source, dest |-> dest_state,
          description |-> GetTriggerDescription(trigger),
          allowed |-> allowed,
          block_reason |-> IF ~allowed THEN reason ELSE None ]

\* a list built from every configured transition, whatever its source
ComputeAvailableTransitions_AnySource(rules, current_state, stage, start_turn, completed, turn_counter) ==
    [ i \in 1..Len(TransitionsConfig) |->
        TransitionEntry(TransitionsConfig[i], rules, current_state, stage, start_turn, completed, turn_counter) ]

\* the list get_available_transitions builds when it does not answer from the cache
ComputeAvailableTransitions(rules, current_state, stage, start_turn, completed, turn_counter) ==
    LET matching == SelectSeq(TransitionsConfig, LAMBDA t : SourceMatches(t.source, current_state))
    IN  [ i \in 1..Len(matching) |->
            TransitionEntry(matching[i], rules, current_state, stage, start_turn, completed, turn_counter) ]

\* cache_key = f"{self.state}_{turn_counter}_{self.current_stage}"
CacheKey(current_state, turn_counter, stage) == <<current_state, turn_counter, stage>>

\* a cache that keeps the allowed entries only
CacheEntry_AllowedOnly(available_triggers) ==
    SelectSeq(available_triggers, LAMBDA t : t.allowed)

\* what get_available_transitions stores under the key
CacheEntry(available_triggers) == available_triggers

\* get_available_transitions(turn_counter): the list returned, and the cache fields after it
GetAvailableTransitions(self, turn_counter) ==
    LET cache_key == CacheKey(self.state, turn_counter, self.current_stage)
    IN  IF cache_key \in DOMAIN self.cache /\ turn_counter = self.last
        THEN [ result |-> self.cache[cache_key],
               cache |-> self.cache,
               last |-> self.last ]
        ELSE LET available_triggers ==
                    ComputeAvailableTransitions(self.guard_rails, self.state, self.current_stage,
                                                self.stage_start_turn, self.completed_stages,
                                                turn_counter)
             IN  [ result |-> available_triggers,
                   cache |-> (cache_key :> CacheEntry(available_triggers)) @@ self.cache,
                   last |-> turn_counter ]

\* mark_stage_completed that appends without looking at the list
MarkStageCompleted_Always(completed, stage_name) == Append(completed, stage_name)

\* mark_stage_completed: the completed list after the call
MarkStageCompleted(completed, stage_name) ==
    IF ~InList(stage_name, completed) /\ StartsWithContent(stage_name)
    THEN Append(completed, stage_name)
    ELSE completed

\* switch_stage that keeps the stage start turn of the stage it leaves
SwitchStage_NoReset(self, new_stage, current_turn) ==
    IF new_stage \notin self.config_stages
    THEN [ ok |-> FALSE, current_stage |-> self.current_stage,
           stage_start_turn |-> self.stage_start_turn,
           states |-> self.states, state |-> self.state, guard_rails |-> self.guard_rails ]
    ELSE LET new_states == Get(Stages[new_stage], "states", <<>>)
             initial_state == IF new_states # <<>> THEN new_states[1] ELSE ConfigInitialState
         IN  [ ok |-> TRUE, current_stage |-> new_stage,
               stage_start_turn |-> self.stage_start_turn,
               states |-> new_states, state |-> initial_state,
               guard_rails |-> SetupGuardRails(new_stage) ]

\* switch_stage that looks the stage up only after it has made it the active one
SwitchStage_LateCheck(self, new_stage, current_turn) ==
    IF new_stage \notin self.config_stages
    THEN [ ok |-> FALSE, current_stage |-> new_stage, stage_start_turn |-> current_turn,
           states |-> self.states, state |-> self.state, guard_rails |-> self.guard_rails ]
    ELSE LET new_states == Get(Stages[new_stage], "states", <<>>)
             initial_state == IF new_states # <<>> THEN new_states[1] ELSE ConfigInitialState
         IN  [ ok |-> TRUE, current_stage |-> new_stage, stage_start_turn |-> current_turn,
               states |-> new_states, state |-> initial_state,
               guard_rails |-> SetupGuardRails(new_stage) ]

\* switch_stage that sets up the rules of the new stage without clearing the list
SwitchStage_KeepRails(self, new_stage, current_turn) ==
    IF new_stage \notin self.config_stages
    THEN [ ok |-> FALSE, current_stage |-> self.current_stage,
           stage_start_turn |-> self.stage_start_turn,
           states |-> self.states, state |-> self.state, guard_rails |-> self.guard_rails ]
    ELSE LET new_states == Get(Stages[new_stage], "states", <<>>)
             initial_state == IF new_states # <<>> THEN new_states[1] ELSE ConfigInitialState
         IN  [ ok |-> TRUE, current_stage |-> new_stage, stage_start_turn |-> current_turn,
               states |-> new_states, state |-> initial_state,
               guard_rails |-> self.guard_rails \o SetupGuardRails(new_stage) ]

\* switch_stage(new_stage, current_turn): its return value and the fields it leaves
SwitchStage(self, new_stage, current_turn) ==
    IF new_stage \notin self.config_stages
    THEN [ ok |-> FALSE, current_stage |-> self.current_stage,
           stage_start_turn |-> self.stage_start_turn,
           states |-> self.states, state |-> self.state, guard_rails |-> self.guard_rails ]
    ELSE LET new_states == Get(Stages[new_stage], "states", <<>>)
             initial_state == IF new_states # <<>> THEN new_states[1] ELSE ConfigInitialState
         IN  [ ok |-> TRUE, current_stage |-> new_stage, stage_start_turn |-> current_turn,
               states |-> new_states, state |-> initial_state,
               guard_rails |-> SetupGuardRails(new_stage) ]

\* _execute_inter_stage_transition(target_stage, turn_counter, reason, target_state)
ExecuteInterStageTransition(self, target_stage, turn_counter, target_state) ==
    LET old_stage == self.current_stage
        completed == IF StartsWithContent(old_stage) /\ target_stage # old_stage
                     THEN MarkStageCompleted(self.completed_stages, old_stage)
                     ELSE self.completed_stages
        sw == SwitchStage(self, target_stage, turn_counter)
        \* a target state the new stage does not list falls back to its first state;
        \* 'unknown', for a stage without states, makes machine.set_state raise
        wanted == IF InList(target_state, sw.states) THEN target_state
                  ELSE IF sw.states # <<>> THEN sw.states[1] ELSE "unknown"
        set_state_raises == wanted # sw.state /\ ~InList(wanted, sw.states)
    IN  [ ret |-> sw.ok /\ ~set_state_raises,
          state |-> IF sw.ok /\ ~set_state_raises THEN wanted ELSE sw.state,
          current_stage |-> sw.current_stage,
          stage_start_turn |-> sw.stage_start_turn,
          states |-> sw.states,
          guard_rails |-> sw.guard_rails,
          completed_stages |-> completed,
          cache |-> self.cache,
          last |-> self.last,
          config_stages |-> self.config_stages ]

\* stage_relative_turns of DecisionRuleEngine.get_context_from_agent_state
StageRelativeTurns(self, turn_counter) == turn_counter - self.stage_start_turn

\* hasattr(self, trigger_name): the first Machine gave the model one method per configured trigger
HasTriggerMethod(trigger_name) == trigger_name \in ConfigTriggers

\* trigger_method() goes through: the first Machine knows the current state and the destination
DispatchSucceeds(current_state, dest_state) ==
    current_state \in MachineStates /\ dest_state \in MachineStates

\* execute_transition that reports a trigger method that raised as a failure
DispatchTrigger_FailOnError(self, trigger_name, q) ==
    LET found == { i \in 1..Len(q.result) : q.result[i].trigger = trigger_name }
        unchanged_but_cache ==
            [ ret |-> FALSE, state |-> self.state, current_stage |-> self.current_stage,
              stage_start_turn |-> self.stage_start_turn, states |-> self.states,
              guard_rails |-> self.guard_rails, completed_stages |-> self.completed_stages,
              cache |-> q.cache, last |-> q.last, config_stages |-> self.config_stages ]
    IN  IF found = {} THEN unchanged_but_cache
        ELSE LET matching_transition == q.result[CHOOSE i \in found : \A j \in found : i <= j]
             IN  IF ~matching_transition.allowed THEN unchanged_but_cache
                 ELSE IF ~HasTriggerMethod(trigger_name) THEN unchanged_but_cache
                 ELSE IF ~DispatchSucceeds(self.state, matching_transition.dest)
                 THEN unchanged_but_cache
                 ELSE [ unchanged_but_cache EXCEPT
                          !.ret = TRUE, !.state = matching_transition.dest ]

\* execute_transition from "Check if trigger is valid and allowed" on; q is what
\* get_available_transitions(turn_counter) returned and left
DispatchTrigger(self, trigger_name, q) ==
    LET found == { i \in 1..Len(q.result) : q.result[i].trigger = trigger_name }
        unchanged_but_cache ==
            [ ret |-> FALSE, state |-> self.state, current_stage |-> self.current_stage,
              stage_start_turn |-> self.stage_start_turn, states |-> self.states,
              guard_rails |-> self.guard_rails, completed_stages |-> self.completed_stages,
              cache |-> q.cache, last |-> q.last, config_stages |-> self.config_stages ]
    IN  IF found = {} THEN unchanged_but_cache
        ELSE LET matching_transition == q.result[CHOOSE i \in found : \A j \in found : i <= j]
             IN  IF ~matching_transition.allowed THEN unchanged_but_cache
                 ELSE IF ~HasTriggerMethod(trigger_name) THEN unchanged_but_cache
                 ELSE [ unchanged_but_cache EXCEPT
                          !.ret = TRUE,
                          !.state = matching_transition.dest,
                          \* the fallback assignment clears the cache, a clean dispatch does not
                          !.cache = IF DispatchSucceeds(self.state, matching_transition.dest)
                                    THEN q.cache ELSE <<>> ]

\* the intra-stage part of execute_transition
ExecuteIntraStageTransition(self, trigger_name, turn_counter) ==
    DispatchTrigger(self, trigger_name, GetAvailableTransitions(self, turn_counter))

\* execute_transition(trigger_name, reason, turn_counter)
ExecuteTransitionResult(self, trigger_name, turn_counter) ==
    IF trigger_name \in DOMAIN InterStageMappings
    THEN ExecuteInterStageTransition(self, InterStageMappings[trigger_name][1], turn_counter,
                                     InterStageMappings[trigger_name][2])
    ELSE ExecuteIntraStageTransition(self, trigger_name, turn_counter)

(***************************************************************************)
(* The conversation: the caller advances its turn counter and calls the    *)
(* machine with it.                                                        *)
(***************************************************************************)
\* the trigger names a caller may request: the configured ones and one nobody configured
RequestedTriggers == ConfigTriggers \cup {"unknown_trigger"}

NoSeq == [used |-> FALSE]

\* no evaluate_decision call and no next_action call made yet
NoRuleCall == [used |-> FALSE]

NoAgent == [used |-> FALSE]

\* no guard rail of the pure-function specification asked yet
NoGuardCall == [used |-> FALSE]

\* the instruct calls that may be in flight on one agent at a time
CallIds == {1, 2}

\* no instruct call in flight: neither call has been made
NoCalls ==
    [ c \in CallIds |->
        [ pc |-> "idle", turn_counter |-> -1, executed |-> FALSE, overlapped |-> FALSE ] ]

\* the state after GenericStateMachine.__init__, in a conversation at turn 0
MachineInit ==
    /\ state = ConfigInitialState
    /\ current_stage = ConfigCurrentStage
    /\ states = Get(Get(Stages, ConfigCurrentStage, <<>>), "states", <<>>)
    /\ stage_start_turn = 0
    /\ completed_stages = <<>>
    /\ guard_rails = SetupGuardRails(ConfigCurrentStage)
    /\ transition_cache = <<>>
    /\ last_cache_turn = -1
    /\ turn = 0
    /\ execs_in_turn = 0
    /\ call = [op |-> "init", ret |-> FALSE, result |-> <<>>, repeated |-> FALSE]
    /\ derailing_since = None
    /\ last_switch_turn = 0

Init ==
    /\ MachineInit
    /\ config_stages = DOMAIN Stages
    /\ conversational_agents = <<>>
    /\ guard_in = NoGuardCall
    /\ guard_out = NoGuardCall
    /\ calls = NoCalls
    /\ seq_in = NoSeq
    /\ seq_out = "none"
    /\ rule_in = NoRuleCall
    /\ rule_out = NoRuleCall
    /\ agent = NoAgent

\* The cache entries a call at turn_counter or later can still answer from: the key
\* holds the turn and a hit needs turn_counter = _last_cache_turn, so with a counter
\* that never decreases the entries of earlier turns are dead and are not kept.
LiveEntries(cache, turn_counter) ==
    LET live == { k \in DOMAIN cache : k[2] >= turn_counter }
    IN  [ k \in live |-> cache[k] ]

\* the caller's counter advances by one (ConversationalAgentSimple.instruct)
AdvanceTurn ==
    /\ turn < MaxTurn
    /\ turn' = turn + 1
    /\ execs_in_turn' = 0
    /\ transition_cache' = LiveEntries(transition_cache, turn + 1)
    /\ call' = [op |-> "advance_turn", ret |-> FALSE, result |-> <<>>, repeated |-> FALSE]
    /\ UNCHANGED <<calls, guard_in, guard_out, conversational_agents, config_stages, state, current_stage, states, stage_start_turn, completed_stages,
                   guard_rails, last_cache_turn, derailing_since, last_switch_turn,
                   seq_in, seq_out, rule_in, rule_out, agent>>

\* sm.get_available_transitions(turn)
CallGetAvailableTransitions ==
    \E q \in {GetAvailableTransitions(Self, turn)} :
        /\ transition_cache' = q.cache
        /\ last_cache_turn' = q.last
        /\ call' = [op |-> "get_available_transitions", ret |-> FALSE, result |-> q.result,
                    repeated |-> (call.op = "get_available_transitions")]
        /\ UNCHANGED <<calls, guard_in, guard_out, conversational_agents, config_stages, state, current_stage, states, stage_start_turn, completed_stages,
                       guard_rails, turn, execs_in_turn, derailing_since, last_switch_turn,
                       seq_in, seq_out, rule_in, rule_out, agent>>

\* golden_path and derailing_states of a stage, empty when the stage has none
GoldenPathOf(stage) == Get(Get(Stages, stage, <<>>), "golden_path", <<>>)

DerailingStatesOf(stage) == Get(Get(Stages, stage, <<>>), "derailing_states", <<>>)

\* history of the derailing: entering a derailing state from the golden path starts it,
\* leaving the derailing states ends it
DerailingSinceAfter(old_state, old_stage, new_state, new_stage, turn_counter) ==
    IF new_stage = old_stage /\ InList(old_state, GoldenPathOf(old_stage))
       /\ InList(new_state, DerailingStatesOf(old_stage))
    THEN Some(turn_counter)
    ELSE IF new_stage = old_stage /\ InList(new_state, DerailingStatesOf(old_stage))
    THEN derailing_since
    ELSE None

\* sm.execute_transition(trigger_name, reason, turn)
CallExecuteTransition(trigger_name) ==
    /\ execs_in_turn < MaxExecPerTurn
    /\ \E r \in {ExecuteTransitionResult(Self, trigger_name, turn)} :
        /\ execs_in_turn' = execs_in_turn + 1
        /\ state' = r.state
        /\ current_stage' = r.current_stage
        /\ stage_start_turn' = r.stage_start_turn
        /\ states' = r.states
        /\ guard_rails' = r.guard_rails
        /\ completed_stages' = r.completed_stages
        /\ transition_cache' = r.cache
        /\ last_cache_turn' = r.last
        /\ call' = [op |-> "execute_transition", ret |-> r.ret, result |-> <<>>, repeated |-> FALSE]
        /\ derailing_since' = DerailingSinceAfter(state, current_stage, r.state, r.current_stage, turn)
        /\ last_switch_turn' = IF trigger_name \in DOMAIN InterStageMappings /\ r.ret
                               THEN turn ELSE last_switch_turn
        /\ UNCHANGED <<calls, guard_in, guard_out, conversational_agents, config_stages, turn, seq_in, seq_out, rule_in, rule_out, agent>>

Next ==
    \/ AdvanceTurn
    \/ CallGetAvailableTransitions
    \/ \E trigger_name \in RequestedTriggers : CallExecuteTransition(trigger_name)

Spec == Init /\ [][Next]_vars

(***************************************************************************)
(* SequenceRule.check as a function of its inputs: the rule and the two    *)
(* states are drawn from bounded sets and check is applied to them.        *)
(***************************************************************************)
SeqNames == {"a", "b", "c", "y"}

\* the sequences without repetition over SeqNames, up to MaxSeqLen long
SeqSequences ==
    UNION { { q \in [1..n -> SeqNames] : \A i, j \in 1..n : i # j => q[i] # q[j] } : n \in 0..MaxSeqLen }

SeqInit ==
    /\ MachineInit
    /\ config_stages = DOMAIN Stages
    /\ conversational_agents = <<>>
    /\ guard_in = NoGuardCall
    /\ guard_out = NoGuardCall
    /\ calls = NoCalls
    /\ seq_in \in [ used : {TRUE}, sequence : SeqSequences, allow_skip : BOOLEAN,
                    allow_backward : BOOLEAN, current_state : SeqNames, dest_state : SeqNames ]
    /\ seq_out = "none"
    /\ rule_in = NoRuleCall
    /\ rule_out = NoRuleCall
    /\ agent = NoAgent

SeqCheck ==
    /\ seq_out = "none"
    /\ seq_out' = IF SequenceRuleCheck(SequenceRule(seq_in.sequence, seq_in.allow_skip, seq_in.allow_backward),
                                       seq_in.current_state, seq_in.dest_state)
                  THEN "allow" ELSE "deny"
    /\ UNCHANGED <<calls, guard_in, guard_out, conversational_agents, config_stages, machine_vars, turn, execs_in_turn, call, derailing_since, last_switch_turn, seq_in,
                   rule_in, rule_out, agent>>

SpecSequenceRule == SeqInit /\ [][SeqCheck]_vars

(***************************************************************************)
(* Properties.                                                             *)
(***************************************************************************)
\* the list an evaluation without the cache gives in the current state
FreshTransitions ==
    ComputeAvailableTransitions(guard_rails, state, current_stage, stage_start_turn,
                                completed_stages, turn)

\* closure_states of a stage, with the default _setup_guard_rails uses
ClosureStatesOf(stage) == Get(Get(Stages, stage, <<>>), "closure_states", <<"onboarding_closure">>)

\* the destinations the configuration gives a trigger
TriggerDests(trigger_name) ==
    { TransitionsConfig[i].dest :
        i \in { j \in 1..Len(TransitionsConfig) : TransitionsConfig[j].trigger = trigger_name } }

\* the trigger is among the transitions of the current state and the guard rails allow it
AvailableAndAllowed(trigger_name) ==
    \E i \in 1..Len(FreshTransitions) :
        FreshTransitions[i].trigger = trigger_name /\ FreshTransitions[i].allowed

\* C1: execute_transition returns true, or changes the current state or the stage,
\* only for a trigger that is among the transitions of the current state and is
\* allowed by every guard rail at that turn; for every other trigger, the
\* inter-stage trigger names included, it returns false.
C1_ExecuteOnlyAvailableAllowed ==
    [][ \A trigger_name \in RequestedTriggers :
            ( /\ CallExecuteTransition(trigger_name)
              /\ (call'.ret \/ state' # state \/ current_stage' # current_stage) )
            => AvailableAndAllowed(trigger_name) ]_vars

\* C2: the current state is a member of the active stage's configured state list.
C2_StateInActiveStage ==
    InList(state, Get(Get(Stages, current_stage, <<>>), "states", <<>>))

\* C3: at every turn from 10 on, in every stage and current state, is_transition_allowed
\* allows the destination that is the stage's closure state.
C3_ClosureAllowedFromTurn10 ==
    (turn >= 10 /\ ClosureStatesOf(current_stage) # <<>>)
    => IsTransitionAllowed(guard_rails, state, current_stage, stage_start_turn,
                           ClosureStatesOf(current_stage)[1], turn, NoContext).allowed

\* C4: SequenceRule.check denies a move from sequence[i] to sequence[j] exactly when
\* j > i+1 and skipping is not allowed, or j < i and going backward is not allowed;
\* it allows every move with the current state or the destination outside the sequence.
C4_SequenceRuleDecision ==
    seq_out # "none"
    => ( (seq_out = "deny")
         <=> \E i, j \in 1..Len(seq_in.sequence) :
                /\ seq_in.sequence[i] = seq_in.current_state
                /\ seq_in.sequence[j] = seq_in.dest_state
                /\ \/ (j > i + 1 /\ ~seq_in.allow_skip)
                   \/ (j < i /\ ~seq_in.allow_backward) )

\* C4 witness: the sequence a, b, c without skipping, a move from a to c, denied
C4_Witness ==
    /\ seq_out = "deny"
    /\ seq_in.sequence = <<"a", "b", "c">>
    /\ ~seq_in.allow_skip /\ ~seq_in.allow_backward
    /\ seq_in.current_state = "a" /\ seq_in.dest_state = "c"

\* C5: in the onboarding stage at a turn from 12 on, execute_transition of a trigger
\* that is available from the current state with a closure state as destination
\* returns true, and execute_transition of a trigger whose destination is neither a
\* closure state nor an allow-listed inter-stage state returns false and leaves the
\* state unchanged.
C5_OnboardingDeadline ==
    [][ (current_stage = "onboarding" /\ turn >= 12)
        => \A trigger_name \in RequestedTriggers :
            CallExecuteTransition(trigger_name)
            => /\ ( \E i \in 1..Len(FreshTransitions) :
                        /\ FreshTransitions[i].trigger = trigger_name
                        /\ InList(FreshTransitions[i].dest, ClosureStatesOf("onboarding")) )
                  => call'.ret
               /\ ( /\ TriggerDests(trigger_name) # {}
                    /\ \A d \in TriggerDests(trigger_name) :
                            /\ ~InList(d, ClosureStatesOf("onboarding"))
                            /\ ~InList(d, InterStageAllowList) )
                  => (~call'.ret /\ state' = state) ]_vars

\* max_derailing_time of a stage
MaxDerailingTimeOf(stage) ==
    Get(Get(Get(Stages, stage, <<>>), "guard_rails", <<>>), "max_derailing_time", 3)

\* C6: once the machine has been in derailing states for max_derailing_time turns or
\* more since it left the golden path, get_available_transitions marks every
\* transition to a state that is neither on the golden path nor a closure state as
\* not allowed and every transition back into the golden path as allowed.
C6_DerailingTimeout ==
    ( /\ derailing_since # None
      /\ InList(state, DerailingStatesOf(current_stage))
      /\ turn - derailing_since[1] >= MaxDerailingTimeOf(current_stage) )
    => LET res == GetAvailableTransitions(Self, turn).result
       IN  \A i \in 1..Len(res) :
            /\ ( ~InList(res[i].dest, GoldenPathOf(current_stage))
                 /\ ~InList(res[i].dest, ClosureStatesOf(current_stage)) ) => ~res[i].allowed
            /\ InList(res[i].dest, GoldenPathOf(current_stage)) => res[i].allowed

\* C7: in stage_selection, get_available_transitions marks every transition whose
\* trigger leads to a completed content stage as not allowed.
C7_CompletedStageBlocked ==
    current_stage = "stage_selection"
    => LET res == GetAvailableTransitions(Self, turn).result
       IN  \A i \in 1..Len(res) :
            ( /\ res[i].trigger \in DOMAIN InterStageMappings
              /\ StartsWithContent(InterStageMappings[res[i].trigger][1])
              /\ InList(InterStageMappings[res[i].trigger][1], completed_stages) )
            => ~res[i].allowed

\* C8: a content stage that is in completed_stages is never the active stage again.
C8_CompletedNeverActive ==
    ~InList(current_stage, completed_stages)

\* C9: stage_start_turn changes only in a successful stage switch, which sets it to
\* the turn passed to the switch, and the turns in stage the guard rails and the
\* rule-engine context compute are measured from the turn of the last switch.
C9_StageStartTurn ==
    /\ [] ( /\ stage_start_turn = last_switch_turn
            /\ TurnsInStage(turn, GuardRailContext(current_stage, stage_start_turn, NoContext))
                    = turn - last_switch_turn
            /\ StageRelativeTurns(Self, turn) = turn - last_switch_turn )
    /\ [][ stage_start_turn' # stage_start_turn
           => /\ call'.op = "execute_transition" /\ call'.ret
              /\ stage_start_turn' = turn
              /\ \E trigger_name \in DOMAIN InterStageMappings :
                    current_stage' = InterStageMappings[trigger_name][1] ]_vars

\* C9 witness: a stage entered by a switch at a turn after 0, some turns later
C9_Witness ==
    /\ current_stage # ConfigCurrentStage
    /\ stage_start_turn > 0
    /\ last_switch_turn = stage_start_turn
    /\ turn > stage_start_turn

\* C10: a call of get_available_transitions that directly follows another one, with
\* the state, the turn and the stage unchanged, returns the same list.
C10_QueryIdempotent ==
    [][ (call.op = "get_available_transitions" /\ call'.op = "get_available_transitions")
        => call'.result = call.result ]_vars

\* C10 witness: a repeated call that returned a list with a blocked transition
C10_Witness ==
    /\ call.op = "get_available_transitions"
    /\ call.repeated
    /\ \E i \in 1..Len(call.result) : ~call.result[i].allowed

\* C11: in every reachable state the list get_available_transitions returns for the
\* current turn equals the list an evaluation without the cache gives for the current
\* state, stage, stage_start_turn and completed stages.
C11_CacheNeverStale ==
    GetAvailableTransitions(Self, turn).result = FreshTransitions

(***************************************************************************)
(* DecisionRuleEngine (decision_rule_engine.py): the decision rules, the   *)
(* engine that holds them sorted by priority, and evaluate_decision.       *)
(***************************************************************************)
\* config['decision_rules']
DecisionRulesConfig ==
    [ closure_rules |-> <<
        [ trigger |-> "emergency_closure",
          conditions |-> [ stages |-> <<"onboarding">>, absolute_turn_limit |-> 12 ] ],
        [ trigger |-> "finish_content",
          conditions |-> [ stages |-> <<"content_politics_tech", "content_psychology_society">>,
                           stage_turn_limit |-> 2 ] ] >>,
      progression_rules |-> <<
        [ source_states |-> <<"init_greeting">>, min_turns_in_state |-> 1,
          target_patterns |-> <<"engagement">> ] >>,
      cycling_prevention_rules |-> <<
        [ cycling_states |-> <<"conversation_repair", "comfort_user">>,
          max_cycling_turns |-> 6, escape_patterns |-> <<"engagement", "closure">> ] >> ]

\* pattern in name (substring), on the patterns and state names the configuration uses
IsSubstring(pattern, name) ==
    \/ pattern = name
    \/ <<pattern, name>> \in
        { <<"closure", "onboarding_closure">>, <<"closure", "content_closure_pt">>,
          <<"closure", "content_closure_ps">>, <<"engagement", "engagement_hook">>,
          <<"deep_dive", "politics_deep_dive">>, <<"deep_dive", "technology_deep_dive">>,
          <<"stimulus", "stimulus_present">> }

\* trigger.startswith('choose_')
StartsWithChoose(trigger) == trigger \in {"choose_politics_tech", "choose_psychology_society"}

\* the rule objects: name and priority as the constructors set them
ClosureRule(closure_trigger, conditions) ==
    [ name |-> "closure_rule", priority |-> 10,
      closure_trigger |-> closure_trigger, conditions |-> conditions ]

DecisionProgressionRule(config) ==
    [ name |-> "progression_rule", priority |-> 20, config |-> config ]

CyclingPreventionRule(config) ==
    [ name |-> "cycling_prevention", priority |-> 15, config |-> config ]

StageSelectionRule ==
    [ name |-> "stage_selection_rule", priority |-> 25 ]

\* ClosureRule.applies
ClosureRuleApplies(rule, context) ==
    LET stage == Get(context, "current_stage", "")
        current_state == Get(context, "current_state", "")
        target_stages == Get(rule.conditions, "stages", <<>>)
        target_states == Get(rule.conditions, "states", <<>>)
    IN  IF target_stages # <<>> /\ ~InList(stage, target_stages) THEN FALSE
        ELSE IF target_states # <<>> /\ ~InList(current_state, target_states) THEN FALSE
        ELSE TRUE

\* ClosureRule.evaluate that does not look for the closure trigger among the
\* available transitions
ClosureRuleEvaluate_Unavailable(rule, context) ==
    LET turn_counter == Get(context, "turn_counter", 0)
        stage_relative_turns == Get(context, "stage_relative_turns", 0)
        max_turns_in_stage == Get(context, "max_turns_in_stage", 15)
        absolute_turn_limit == Get(rule.conditions, "absolute_turn_limit", 0)
        stage_turn_limit == Get(rule.conditions, "stage_turn_limit", 0)
        max_turns_ratio == Get(rule.conditions, "max_turns_ratio", <<0, 1>>)
    IN  IF absolute_turn_limit # 0 /\ turn_counter >= absolute_turn_limit
        THEN Some(rule.closure_trigger)
        ELSE IF stage_turn_limit # 0 /\ stage_relative_turns >= stage_turn_limit
        THEN Some(rule.closure_trigger)
        ELSE IF /\ max_turns_ratio[1] # 0
                /\ stage_relative_turns * max_turns_ratio[2] >= max_turns_in_stage * max_turns_ratio[1]
        THEN Some(rule.closure_trigger)
        ELSE None

\* ClosureRule.evaluate; max_turns_ratio is a fraction <<numerator, denominator>>
ClosureRuleEvaluate(rule, context) ==
    LET turn_counter == Get(context, "turn_counter", 0)
        stage_relative_turns == Get(context, "stage_relative_turns", 0)
        available_transitions == Get(context, "available_transitions", <<>>)
        max_turns_in_stage == Get(context, "max_turns_in_stage", 15)
        absolute_turn_limit == Get(rule.conditions, "absolute_turn_limit", 0)
        stage_turn_limit == Get(rule.conditions, "stage_turn_limit", 0)
        max_turns_ratio == Get(rule.conditions, "max_turns_ratio", <<0, 1>>)
        closure_available ==
            \E i \in 1..Len(available_transitions) :
                available_transitions[i].trigger = rule.closure_trigger
    IN  IF absolute_turn_limit # 0 /\ turn_counter >= absolute_turn_limit /\ closure_available
        THEN Some(rule.closure_trigger)
        ELSE IF stage_turn_limit # 0 /\ stage_relative_turns >= stage_turn_limit /\ closure_available
        THEN Some(rule.closure_trigger)
        ELSE IF /\ max_turns_ratio[1] # 0
                /\ stage_relative_turns * max_turns_ratio[2] >= max_turns_in_stage * max_turns_ratio[1]
                /\ closure_available
        THEN Some(rule.closure_trigger)
        ELSE None

RECURSIVE FirstMatchingPattern(_, _, _)
\* the loop over patterns of ProgressionRule.evaluate and CyclingPreventionRule.evaluate:
\* the first pattern some available destination contains gives that transition's trigger
FirstMatchingPattern(patterns, i, available_transitions) ==
    IF i > Len(patterns) THEN None
    ELSE LET matching_transitions ==
                SelectSeq(available_transitions, LAMBDA t : IsSubstring(patterns[i], t.dest))
         IN  IF matching_transitions # <<>>
             THEN Some(matching_transitions[1].trigger)
             ELSE FirstMatchingPattern(patterns, i + 1, available_transitions)

\* ProgressionRule.applies and .evaluate of decision_rule_engine.py
DecisionProgressionRuleApplies(rule, context) ==
    InList(Get(context, "current_state", ""), Get(rule.config, "source_states", <<>>))

DecisionProgressionRuleEvaluate(rule, context) ==
    LET stage_relative_turns == Get(context, "stage_relative_turns", 0)
        available_transitions == Get(context, "available_transitions", <<>>)
        min_turns == Get(rule.config, "min_turns_in_state", 1)
    IN  IF stage_relative_turns >= min_turns
        THEN FirstMatchingPattern(Get(rule.config, "target_patterns", <<>>), 1, available_transitions)
        ELSE None

\* CyclingPreventionRule.applies and .evaluate
CyclingPreventionRuleApplies(rule, context) ==
    InList(Get(context, "current_state", ""), Get(rule.config, "cycling_states", <<>>))

CyclingPreventionRuleEvaluate(rule, context) ==
    LET stage_relative_turns == Get(context, "stage_relative_turns", 0)
        available_transitions == Get(context, "available_transitions", <<>>)
        max_cycling_turns == Get(rule.config, "max_cycling_turns", 6)
    IN  IF stage_relative_turns >= max_cycling_turns
        THEN FirstMatchingPattern(Get(rule.config, "escape_patterns", <<>>), 1, available_transitions)
        ELSE None

\* the user messages of the model, lower-cased, and the words
\* _detect_unavailable_stage_request looks for in them
Messages == {"", "psychologie", "politik"}

MentionsPsychologySociety(last_message) == last_message \in {"psychologie"}

MentionsPoliticsTech(last_message) == last_message \in {"politik"}

\* StageSelectionRule._detect_unavailable_stage_request
DetectUnavailableStageRequest(context) ==
    LET last_message == Get(context, "last_user_message", "")
        completed == Get(context, "completed_stages", <<>>)
    IN  IF MentionsPsychologySociety(last_message) /\ InList("content_psychology_society", completed)
        THEN Some("content_psychology_society")
        ELSE IF MentionsPoliticsTech(last_message) /\ InList("content_politics_tech", completed)
        THEN Some("content_politics_tech")
        ELSE None

\* StageSelectionRule.applies and .evaluate
StageSelectionRuleApplies(context) == Get(context, "current_stage", "") = "stage_selection"

\* the context dict as StageSelectionRule.evaluate leaves it: the requested stage is
\* recorded under unavailable_stage_requested
StageSelectionRuleContext(context) ==
    IF DetectUnavailableStageRequest(context) # None
    THEN ("unavailable_stage_requested" :> DetectUnavailableStageRequest(context)[1]) @@ context
    ELSE context

\* StageSelectionRule.evaluate without the test for the content transitions that are left
StageSelectionRuleEvaluate_FlagOnly(context) ==
    LET all_stages_completed == Get(context, "all_stages_completed", FALSE)
        available_transitions == Get(context, "available_transitions", <<>>)
        allowed_transitions == SelectSeq(available_transitions, LAMBDA t : Get(t, "allowed", TRUE))
        offboarding_transitions ==
            SelectSeq(allowed_transitions, LAMBDA t : t.trigger = "finish_all_content")
    IN  IF DetectUnavailableStageRequest(context) # None THEN None
        ELSE IF all_stages_completed /\ offboarding_transitions # <<>>
        THEN Some("finish_all_content")
        ELSE None

\* StageSelectionRule.evaluate that looks at the completion before the user's request
StageSelectionRuleEvaluate_ForceFirst(context) ==
    LET all_stages_completed == Get(context, "all_stages_completed", FALSE)
        available_transitions == Get(context, "available_transitions", <<>>)
        completed == Get(context, "completed_stages", <<>>)
        allowed_transitions == SelectSeq(available_transitions, LAMBDA t : Get(t, "allowed", TRUE))
        offboarding_transitions ==
            SelectSeq(allowed_transitions, LAMBDA t : t.trigger = "finish_all_content")
        content_transitions ==
            SelectSeq(allowed_transitions, LAMBDA t : StartsWithChoose(t.trigger))
    IN  IF all_stages_completed /\ offboarding_transitions # <<>>
        THEN Some("finish_all_content")
        ELSE IF Len(content_transitions) = 0 /\ Len(completed) > 0 /\ offboarding_transitions # <<>>
        THEN Some("finish_all_content")
        ELSE None

StageSelectionRuleEvaluate(context) ==
    LET all_stages_completed == Get(context, "all_stages_completed", FALSE)
        available_transitions == Get(context, "available_transitions", <<>>)
        completed == Get(context, "completed_stages", <<>>)
        allowed_transitions == SelectSeq(available_transitions, LAMBDA t : Get(t, "allowed", TRUE))
        offboarding_transitions ==
            SelectSeq(allowed_transitions, LAMBDA t : t.trigger = "finish_all_content")
        content_transitions ==
            SelectSeq(allowed_transitions, LAMBDA t : StartsWithChoose(t.trigger))
    IN  IF DetectUnavailableStageRequest(context) # None THEN None
        ELSE IF all_stages_completed /\ offboarding_transitions # <<>>
        THEN Some("finish_all_content")
        ELSE IF Len(content_transitions) = 0 /\ Len(completed) > 0 /\ offboarding_transitions # <<>>
        THEN Some("finish_all_content")
        ELSE None

\* rule.applies(context) and rule.evaluate(context), by the class of the rule
DecisionRuleApplies(rule, context) ==
    CASE rule.name = "closure_rule" -> ClosureRuleApplies(rule, context)
      [] rule.name = "progression_rule" -> DecisionProgressionRuleApplies(rule, context)
      [] rule.name = "cycling_prevention" -> CyclingPreventionRuleApplies(rule, context)
      [] rule.name = "stage_selection_rule" -> StageSelectionRuleApplies(context)

DecisionRuleEvaluate(rule, context) ==
    CASE rule.name = "closure_rule" -> ClosureRuleEvaluate(rule, context)
      [] rule.name = "progression_rule" -> DecisionProgressionRuleEvaluate(rule, context)
      [] rule.name = "cycling_prevention" -> CyclingPreventionRuleEvaluate(rule, context)
      [] rule.name = "stage_selection_rule" -> StageSelectionRuleEvaluate(context)

\* list.sort(key=lambda r: r.priority): stable, ascending
InsertByPriority(sorted, rule) ==
    LET k == Cardinality({ i \in 1..Len(sorted) : sorted[i].priority <= rule.priority })
    IN  SubSeq(sorted, 1, k) \o <<rule>> \o SubSeq(sorted, k + 1, Len(sorted))

RECURSIVE SortByPriority(_)
SortByPriority(rules) ==
    IF rules = <<>> THEN <<>>
    ELSE InsertByPriority(SortByPriority(SubSeq(rules, 1, Len(rules) - 1)), rules[Len(rules)])

\* the rules in the order _setup_rules_from_config appends them
AppendedRules(config) ==
    LET decision_rules_config == Get(config, "decision_rules", <<>>)
        closure == Get(decision_rules_config, "closure_rules", <<>>)
        progression == Get(decision_rules_config, "progression_rules", <<>>)
        cycling == Get(decision_rules_config, "cycling_prevention_rules", <<>>)
    IN  [ i \in 1..Len(closure) |-> ClosureRule(closure[i].trigger, closure[i].conditions) ]
        \o [ i \in 1..Len(progression) |-> DecisionProgressionRule(progression[i]) ]
        \o [ i \in 1..Len(cycling) |-> CyclingPreventionRule(cycling[i]) ]
        \o << StageSelectionRule >>

\* an engine that keeps the rules in the order they were appended
SetupRulesFromConfig_Unsorted(config) == AppendedRules(config)

\* DecisionRuleEngine._setup_rules_from_config: self.rules
SetupRulesFromConfig(config) == SortByPriority(AppendedRules(config))

\* the decision of a rule that yielded trigger, and the decision when no rule did
ForcedDecision(rule, trigger, visited) ==
    [ trigger |-> Some(trigger), rule_name |-> Some(rule.name), forced |-> TRUE,
      visited |-> visited ]

NoDecision(visited) ==
    [ trigger |-> None, rule_name |-> None, forced |-> FALSE, visited |-> visited ]

RECURSIVE EvaluateFrom_StopAtFirstApplicable(_, _, _, _)
\* an engine in which the first applicable rule ends the evaluation, trigger or not
EvaluateFrom_StopAtFirstApplicable(rules, i, context, visited) ==
    IF i > Len(rules) THEN NoDecision(visited)
    ELSE IF DecisionRuleApplies(rules[i], context)
         THEN LET trigger == DecisionRuleEvaluate(rules[i], context)
              IN  IF trigger # None /\ trigger[1] # ""
                  THEN ForcedDecision(rules[i], trigger[1], Append(visited, i))
                  ELSE NoDecision(Append(visited, i))
         ELSE EvaluateFrom_StopAtFirstApplicable(rules, i + 1, context, Append(visited, i))

RECURSIVE EvaluateFrom(_, _, _, _)
\* the loop of evaluate_decision from rule i on; visited lists the rules it has asked
EvaluateFrom(rules, i, context, visited) ==
    IF i > Len(rules) THEN NoDecision(visited)
    ELSE IF DecisionRuleApplies(rules[i], context)
         THEN LET trigger == DecisionRuleEvaluate(rules[i], context)
              IN  IF trigger # None /\ trigger[1] # ""
                  THEN ForcedDecision(rules[i], trigger[1], Append(visited, i))
                  ELSE EvaluateFrom(rules, i + 1, context, Append(visited, i))
         ELSE EvaluateFrom(rules, i + 1, context, Append(visited, i))

\* DecisionRuleEngine.evaluate_decision(context)
EvaluateDecision(rules, context) == EvaluateFrom(rules, 1, context, <<>>)

\* the caller's context dict after evaluate_decision returned decision: the rules
\* whose evaluate ran got the dict itself, and StageSelectionRule writes into it
EvaluateDecisionContext(rules, context, decision) ==
    IF \E i \in 1..Len(decision.visited) :
            /\ rules[decision.visited[i]].name = "stage_selection_rule"
            /\ StageSelectionRuleApplies(context)
    THEN StageSelectionRuleContext(context)
    ELSE context

\* DecisionRuleEngine.get_context_from_agent_state(agent_state, available_transitions)
GetContextFromAgentState(self, turn_counter, available_transitions, instruction) ==
    LET stage_config == Get(Stages, self.current_stage, <<>>)
    IN  [ current_state |-> self.state,
          current_stage |-> self.current_stage,
          turn_counter |-> turn_counter,
          stage_relative_turns |-> StageRelativeTurns(self, turn_counter),
          stage_start_turn |-> self.stage_start_turn,
          available_transitions |-> available_transitions,
          max_turns_in_stage |-> Get(stage_config, "max_turns_in_stage", 15),
          target_turns |-> Get(stage_config, "target_turns", 12),
          closure_states |-> Get(stage_config, "closure_states", <<>>),
          golden_path |-> Get(stage_config, "golden_path", <<>>),
          derailing_states |-> Get(stage_config, "derailing_states", <<>>),
          last_user_message |-> instruction,
          available_content_stages |-> self.completed_stages,
          completed_stages |-> self.completed_stages ]

\* the configuration document as the engine reads it, and the engine's rules
Config == [ decision_rules |-> DecisionRulesConfig ]

EngineRules == SetupRulesFromConfig(Config)

(***************************************************************************)
(* evaluate_decision as a function of its context: the context is built    *)
(* from a machine in some state of some stage at some turn.                *)
(***************************************************************************)
\* the completed lists mark_stage_completed can build
CompletedLists ==
    { <<>>, <<"content_politics_tech">>, <<"content_psychology_society">>,
      <<"content_politics_tech", "content_psychology_society">>,
      <<"content_psychology_society", "content_politics_tech">> }

\* a machine in a state of a stage; the initial stage starts at turn 0
MachineIn(stage, current_state, start_turn, completed) ==
    [ state |-> current_state, current_stage |-> stage, stage_start_turn |-> start_turn,
      states |-> Stages[stage].states, guard_rails |-> SetupGuardRails(stage),
      completed_stages |-> completed, cache |-> <<>>, last |-> -1,
      config_stages |-> DOMAIN Stages ]

RuleContexts ==
    { GetContextFromAgentState(
          MachineIn(stage, Stages[stage].states[i], start_turn, completed), turn_counter,
          ComputeAvailableTransitions(SetupGuardRails(stage), Stages[stage].states[i], stage,
                                      start_turn, completed, turn_counter),
          message) :
        <<stage, i, start_turn, turn_counter, completed, message>> \in
            { x \in (DOMAIN Stages) \X (1..6) \X (0..MaxTurn) \X (0..MaxTurn)
                        \X CompletedLists \X Messages :
                /\ x[2] <= Len(Stages[x[1]].states)
                /\ x[3] <= x[4]
                /\ (x[1] = ConfigCurrentStage => x[3] = 0) } }

RuleInit ==
    /\ MachineInit
    /\ config_stages = DOMAIN Stages
    /\ conversational_agents = <<>>
    /\ guard_in = NoGuardCall
    /\ guard_out = NoGuardCall
    /\ calls = NoCalls
    /\ seq_in = NoSeq
    /\ seq_out = "none"
    /\ rule_in \in RuleContexts
    /\ rule_out = NoRuleCall
    /\ agent = NoAgent

RuleEvaluate ==
    /\ rule_out = NoRuleCall
    /\ \E decision \in {EvaluateDecision(EngineRules, rule_in)} :
        /\ rule_out' = decision
        /\ rule_in' = EvaluateDecisionContext(EngineRules, rule_in, decision)
    /\ UNCHANGED <<calls, guard_in, guard_out, conversational_agents, config_stages, machine_vars, turn, execs_in_turn, call, derailing_since, last_switch_turn,
                   seq_in, seq_out, agent>>

SpecRuleEngine == RuleInit /\ [][RuleEvaluate]_vars

\* rule k of the engine applies to the context and yields a trigger
RuleYields(k, context) ==
    /\ DecisionRuleApplies(EngineRules[k], context)
    /\ LET trigger == DecisionRuleEvaluate(EngineRules[k], context)
       IN  trigger # None /\ trigger[1] # ""

\* the priority each rule class has
PriorityOf(name) ==
    CASE name = "closure_rule" -> 10
      [] name = "cycling_prevention" -> 15
      [] name = "progression_rule" -> 20
      [] name = "stage_selection_rule" -> 25

\* C12: the engine holds its rules sorted ascending by priority (closure 10, cycling
\* prevention 15, progression 20, stage selection 25); the trigger evaluate_decision
\* returns is that of a rule that applies and yields it, no rule with a lower priority
\* number applies and yields a trigger, and no rule after the winning one is asked.
C12_PriorityOrder ==
    /\ \A i, j \in 1..Len(EngineRules) :
            i < j => EngineRules[i].priority <= EngineRules[j].priority
    /\ \A i \in 1..Len(EngineRules) : EngineRules[i].priority = PriorityOf(EngineRules[i].name)
    /\ (rule_out # NoRuleCall /\ rule_out.forced)
       => LET w == rule_out.visited[Len(rule_out.visited)]
          IN  /\ rule_out.visited = [ k \in 1..w |-> k ]
              /\ rule_out.rule_name = Some(EngineRules[w].name)
              /\ rule_out.trigger = DecisionRuleEvaluate(EngineRules[w], rule_in)
              /\ \A k \in 1..Len(EngineRules) :
                    EngineRules[k].priority < EngineRules[w].priority => ~RuleYields(k, rule_in)

\* C12 witness: the closure rule won although the cycling prevention rule yields a trigger too
C12_Witness ==
    /\ rule_out # NoRuleCall
    /\ rule_out.forced
    /\ rule_out.rule_name = Some("closure_rule")
    /\ \E k \in 1..Len(EngineRules) :
            EngineRules[k].name = "cycling_prevention" /\ RuleYields(k, rule_in)

\* C13: evaluate_decision returns forced = true exactly when it returns a trigger, and it
\* returns a trigger exactly when some rule both applies and yields one: an applicable
\* rule without a trigger does not end the evaluation.
C13_ForcedIffTrigger ==
    rule_out # NoRuleCall
    => /\ rule_out.forced <=> rule_out.trigger # None
       /\ rule_out.forced <=> \E k \in 1..Len(EngineRules) : RuleYields(k, rule_in)
       /\ ~rule_out.forced => (rule_out.trigger = None /\ rule_out.rule_name = None)

\* C13 witness: a decision forced by a rule asked after an applicable rule that gave no trigger
C13_Witness ==
    /\ rule_out # NoRuleCall
    /\ rule_out.forced
    /\ \E k \in 1..Len(rule_out.visited) - 1 :
            /\ DecisionRuleApplies(EngineRules[k], rule_in)
            /\ ~RuleYields(k, rule_in)

(***************************************************************************)
(* LLMDecisionAgent.next_action (llm_decision_agent.py) on an agent state  *)
(* whose state machine is a GenericStateMachine, and the conversational    *)
(* exchange around it (ConversationalAgentSimple.instruct).                *)
(***************************************************************************)
\* what the decision LLM can answer: a trigger name, nothing usable (""), or a failed call
LlmAnswers == RequestedTriggers \cup {"", "exception"}

\* the machine fields of the record an execute_transition leaves
MachineOf(r) ==
    [ state |-> r.state, current_stage |-> r.current_stage,
      stage_start_turn |-> r.stage_start_turn, states |-> r.states,
      guard_rails |-> r.guard_rails, completed_stages |-> r.completed_stages,
      cache |-> r.cache, last |-> r.last, config_stages |-> r.config_stages ]

\* the machine after a get_available_transitions call that returned q
AfterQuery(self, q) == [ self EXCEPT !.cache = q.cache, !.last = q.last ]

\* get_state_context_for_decision_agent that does not filter its available_transitions
GetStateContextForDecisionAgent_Unfiltered(self, turn_counter) ==
    LET q == GetAvailableTransitions(self, turn_counter)
        context ==
            [ current_state |-> self.state,
              current_stage |-> self.current_stage,
              available_transitions |-> q.result,
              blocked_transitions |-> SelectSeq(q.result, LAMBDA t : ~t.allowed),
              turn_counter |-> turn_counter ]
    IN  [ context |-> context, all |-> q.result, cache |-> q.cache, last |-> q.last ]

\* get_state_context_for_decision_agent(turn_counter): the context and the cache fields
GetStateContextForDecisionAgent(self, turn_counter) ==
    Bind(GetAvailableTransitions(self, turn_counter), LAMBDA q :
        LET available_content_stages ==
                SelectSeq(<<"content_politics_tech", "content_psychology_society">>,
                          LAMBDA name : ~InList(name, self.completed_stages))
            context ==
                [ current_state |-> self.state,
                  current_stage |-> self.current_stage,
                  available_transitions |-> SelectSeq(q.result, LAMBDA t : t.allowed),
                  blocked_transitions |-> SelectSeq(q.result, LAMBDA t : ~t.allowed),
                  turn_counter |-> turn_counter ]
            stage_info ==
                IF self.current_stage = "stage_selection"
                THEN [ available_content_stages |-> available_content_stages,
                       completed_stages |-> self.completed_stages,
                       all_stages_completed |-> (Len(available_content_stages) = 0) ]
                ELSE <<>>
        IN  [ context |-> context @@ stage_info, all |-> q.result,
              cache |-> q.cache, last |-> q.last ])

\* LLMDecisionAgent.get_current_state_transitions
GetCurrentStateTransitions(self, turn_counter) ==
    Bind(GetAvailableTransitions(self, turn_counter), LAMBDA q :
        [ result |-> SelectSeq(q.result, LAMBDA t : SourceMatches(t.source, self.state)),
          cache |-> q.cache, last |-> q.last ])

\* LLMDecisionAgent.check_guard_rail_enforcement: the forced trigger or None
CheckGuardRailEnforcement(self, turn_counter, available_transitions, instruction) ==
    Bind(EvaluateDecision(EngineRules,
                          GetContextFromAgentState(self, turn_counter, available_transitions,
                                                   instruction)),
         LAMBDA decision : IF decision.forced THEN decision.trigger ELSE None)

\* where a machine stands: its state, its stage and the turn the stage started
Snapshot(m) ==
    [ state |-> m.state, current_stage |-> m.current_stage,
      stage_start_turn |-> m.stage_start_turn ]

\* one execute_transition made by next_action on machine self, added to its log
Executed(log, by, trigger, self, r) ==
    Append(log, [ by |-> by, trigger |-> trigger, ret |-> r.ret,
                  from |-> Snapshot(self), to |-> Snapshot(r) ])

\* next_action from the LLM call on: self and available_transitions are the machine and
\* the list after the rule engine's part; log holds the transitions executed so far
LlmPart(self, turn_counter, available_transitions, llm, log) ==
    Bind(SelectSeq(available_transitions, LAMBDA t : Get(t, "allowed", TRUE)),
         LAMBDA allowed_transitions :
    LET first_allowed == allowed_transitions[1].trigger
        trigger == IF llm = "" /\ allowed_transitions # <<>> THEN first_allowed ELSE llm
        chosen == \E i \in 1..Len(allowed_transitions) : allowed_transitions[i].trigger = trigger
        done(m, l, type) == [ machine |-> m, log |-> l, type |-> type ]
        run(by, t) == Bind(ExecuteTransitionResult(self, t, turn_counter), LAMBDA r :
                           done(MachineOf(r), Executed(log, by, t, self, r), "PROMPT_ADAPTION"))
    IN  IF llm = "exception"
        THEN IF allowed_transitions # <<>> THEN run("exception_fallback", first_allowed)
             ELSE done(self, log, "PROMPT_ADAPTION")
        ELSE IF trigger = "" THEN done(self, log, "PROMPT_ADAPTION")
        ELSE IF chosen THEN run("llm", trigger)
        ELSE IF self.current_stage = "stage_selection" THEN done(self, log, "GENERATE_ANSWER")
        ELSE IF allowed_transitions # <<>> THEN run("fallback", first_allowed)
        ELSE done(self, log, "PROMPT_ADAPTION"))

\* LLMDecisionAgent.next_action up to the LLM call: the rule engine's forced trigger and its
\* execution.  What the LLM part starts from: the machine, the transitions to choose from,
\* the log of executed transitions and the forced trigger.
NextActionRules(self, turn_counter, instruction) ==
    Bind(AfterQuery(self, GetStateContextForDecisionAgent(self, turn_counter)), LAMBDA m1 :
    Bind(GetCurrentStateTransitions(m1, turn_counter), LAMBDA q2 :
    Bind(AfterQuery(m1, q2), LAMBDA m2 :
    Bind(CheckGuardRailEnforcement(m2, turn_counter, q2.result, instruction),
         LAMBDA forced_transition :
        IF forced_transition = None \/ forced_transition = Some("")
        THEN [ machine |-> m2, available_transitions |-> q2.result, log |-> <<>>,
               forced |-> None ]
        ELSE Bind(ExecuteTransitionResult(m2, forced_transition[1], turn_counter), LAMBDA r :
             Bind(MachineOf(r), LAMBDA m3 :
             Bind(Executed(<<>>, "rule", forced_transition[1], m2, r), LAMBDA log :
                IF r.ret
                THEN \* the transitions are reloaded after a forced transition that succeeded
                     Bind(GetCurrentStateTransitions(m3, turn_counter), LAMBDA q3 :
                          [ machine |-> AfterQuery(m3, q3),
                            available_transitions |-> q3.result,
                            log |-> log, forced |-> forced_transition ])
                ELSE [ machine |-> m3, available_transitions |-> q2.result,
                       log |-> log, forced |-> forced_transition ])))))))

\* LLMDecisionAgent.next_action(agent_state): the machine it leaves, the transitions it
\* executed, the trigger the rule engine forced and the type of the decision returned
NextAction(self, turn_counter, instruction, llm) ==
    Bind(NextActionRules(self, turn_counter, instruction), LAMBDA pre :
    Bind(LlmPart(pre.machine, turn_counter, pre.available_transitions, llm, pre.log),
         LAMBDA rest :
        [ machine |-> rest.machine, log |-> rest.log, type |-> rest.type,
          forced |-> pre.forced ]))

\* a counter that advances by two
NextTurnCounter_Skip(turn_counter) == turn_counter + 2

\* self.state.conversation_turn_counter += 1
NextTurnCounter(turn_counter) == turn_counter + 1

\* the derailing history since after one executed transition
DerailingSinceStep(since, old_state, old_stage, new_state, new_stage, turn_counter) ==
    IF new_stage = old_stage /\ InList(old_state, GoldenPathOf(old_stage))
       /\ InList(new_state, DerailingStatesOf(old_stage))
    THEN Some(turn_counter)
    ELSE IF new_stage = old_stage /\ InList(new_state, DerailingStatesOf(old_stage))
    THEN since
    ELSE None

\* the derailing history after the transitions of a log
RECURSIVE DerailingSinceLog(_, _, _, _)
DerailingSinceLog(since, log, i, turn_counter) ==
    IF i > Len(log) THEN since
    ELSE DerailingSinceLog(
             IF log[i].ret
             THEN DerailingSinceStep(since, log[i].from.state, log[i].from.current_stage,
                                     log[i].to.state, log[i].to.current_stage, turn_counter)
             ELSE since,
             log, i + 1, turn_counter)

\* One conversational exchange: the decision agent's next_action, where n is what it did,
\* the turn counter's increment and the stage context read for the answer's prompt at
\* turn counter context_turn.
Exchange(n, context_turn, op) ==
    \E stage_context \in
            { IF n.type \in {"PROMPT_ADAPTION", "GENERATE_ANSWER"} /\ context_turn # None
              THEN Some(GetStateContextForDecisionAgent(n.machine, context_turn[1]))
              ELSE None } :
     \E after \in { IF stage_context # None THEN AfterQuery(n.machine, stage_context[1])
                    ELSE n.machine } :
        /\ state' = after.state
        /\ current_stage' = after.current_stage
        /\ stage_start_turn' = after.stage_start_turn
        /\ states' = after.states
        /\ guard_rails' = after.guard_rails
        /\ completed_stages' = after.completed_stages
        /\ transition_cache' = LiveEntries(after.cache, NextTurnCounter(turn))
        /\ last_cache_turn' = after.last
        /\ turn' = NextTurnCounter(turn)
        /\ execs_in_turn' = 0
        /\ call' = [op |-> op, ret |-> FALSE, result |-> <<>>, repeated |-> FALSE]
        /\ agent' = [ used |-> TRUE, forced |-> n.forced, log |-> n.log, type |-> n.type,
                      turn |-> turn,
                      stage_context |->
                          IF stage_context # None
                          THEN Some([ context |-> stage_context[1].context,
                                      transitions |-> stage_context[1].all ])
                          ELSE None ]
        /\ derailing_since' = DerailingSinceLog(derailing_since, n.log, 1, turn)
        /\ last_switch_turn' =
                IF \E i \in 1..Len(n.log) :
                        n.log[i].ret /\ n.log[i].trigger \in DOMAIN InterStageMappings
                THEN turn ELSE last_switch_turn
        /\ UNCHANGED <<calls, guard_in, guard_out, conversational_agents, config_stages, seq_in, seq_out, rule_in, rule_out>>

\* ConversationalAgentSimple.instruct(instruction), the LLM of the decision agent answering
\* llm: the prompt of a PROMPT_ADAPTION decision reads the stage context, the answer is
\* generated, and the turn counter advances at the end
Instruct(instruction) ==
    /\ turn < MaxTurn
    /\ \E pre \in {NextActionRules(Self, turn, instruction)} :
        \E llm \in LlmAnswers :
            \E rest \in {LlmPart(pre.machine, turn, pre.available_transitions, llm, pre.log)} :
                Exchange([ machine |-> rest.machine, log |-> rest.log, type |-> rest.type,
                           forced |-> pre.forced ],
                         IF rest.type = "PROMPT_ADAPTION" THEN Some(turn) ELSE None,
                         "instruct")

\* ConversationalAgentSimple.stream(instruction): the turn counter advances right after
\* next_action, and the stage context is read with the advanced counter
Stream(instruction) ==
    /\ turn < MaxTurn
    /\ \E pre \in {NextActionRules(Self, turn, instruction)} :
        \E llm \in LlmAnswers :
            \E rest \in {LlmPart(pre.machine, turn, pre.available_transitions, llm, pre.log)} :
                Exchange([ machine |-> rest.machine, log |-> rest.log, type |-> rest.type,
                           forced |-> pre.forced ],
                         Some(NextTurnCounter(turn)),
                         "stream")

AgentNext ==
    \/ \E instruction \in Messages : Instruct(instruction)
    \/ \E instruction \in Messages : Stream(instruction)

SpecAgent == Init /\ [][AgentNext]_vars

\* C14: whenever the rule engine forced a trigger in next_action, that trigger was executed
\* successfully in that call and the machine moved to a destination of the trigger.
C14_ForcedTriggerExecuted ==
    (agent.used /\ agent.forced # None)
    => /\ agent.log # <<>>
       /\ agent.log[1].by = "rule"
       /\ agent.log[1].trigger = agent.forced[1]
       /\ agent.log[1].ret
       /\ agent.log[1].to.state \in TriggerDests(agent.forced[1])

\* C15: in a next_action call in which a rule forced a trigger, the forced trigger is the
\* only transition executed: no trigger of the LLM, or of a fallback for it, is executed.
C15_OneTransitionPerTurn ==
    (agent.used /\ agent.forced # None)
    => \A i \in 1..Len(agent.log) : agent.log[i].by = "rule"

(***************************************************************************)
(* A configuration whose stages lack the offboarding stage that the        *)
(* trigger finish_all_content targets.                                     *)
(***************************************************************************)
InitMissingStage ==
    /\ MachineInit
    /\ config_stages = DOMAIN Stages \ {"offboarding"}
    /\ conversational_agents = <<>>
    /\ guard_in = NoGuardCall
    /\ guard_out = NoGuardCall
    /\ calls = NoCalls
    /\ seq_in = NoSeq
    /\ seq_out = "none"
    /\ rule_in = NoRuleCall
    /\ rule_out = NoRuleCall
    /\ agent = NoAgent

SpecMissingStage == InitMissingStage /\ [][AgentNext]_vars

\* the execute_transition calls of the last next_action whose trigger is an inter-stage
\* trigger with a target stage the configuration lacks
MissingStageCalls ==
    IF agent.used
    THEN { i \in 1..Len(agent.log) :
             /\ agent.log[i].trigger \in DOMAIN InterStageMappings
             /\ InterStageMappings[agent.log[i].trigger][1] \notin config_stages }
    ELSE {}

\* C16: an inter-stage trigger whose target stage is absent from the stages configuration
\* makes execute_transition return false and leaves the current state, the active stage
\* and stage_start_turn as they were before the call.
C16_MissingStageFails ==
    \A i \in MissingStageCalls :
        /\ ~agent.log[i].ret
        /\ agent.log[i].to = agent.log[i].from

C16_Witness ==
    \E i \in MissingStageCalls :
        /\ agent.log[i].trigger = "finish_all_content"
        /\ agent.log[i].from.current_stage = "stage_selection"

(***************************************************************************)
(* The fallback of execute_transition                                      *)
(***************************************************************************)
\* the entry execute_transition finds for the trigger in get_available_transitions(turn):
\* the first one with that trigger, or None
MatchingTransition(trigger_name) ==
    LET q == GetAvailableTransitions(Self, turn).result
        found == { i \in 1..Len(q) : q[i].trigger = trigger_name }
    IN  IF found = {} THEN None ELSE Some(q[CHOOSE i \in found : \A j \in found : i <= j])

\* C17: in every state the conversation reaches, when execute_transition finds the trigger
\* available and allowed and the trigger method raises, because the machine that dispatches
\* it does not know the current state or the destination, the call returns true and the
\* current state it leaves is the destination.
C17_FailedDispatchAssignsDestination ==
    \A trigger_name \in ConfigTriggers \ DOMAIN InterStageMappings :
        \A m \in {MatchingTransition(trigger_name)} :
            ( /\ m # None
              /\ m[1].allowed
              /\ ~DispatchSucceeds(state, m[1].dest) )
            => \A r \in {ExecuteTransitionResult(Self, trigger_name, turn)} :
                    r.ret /\ r.state = m[1].dest

\* next_action executed an intra-stage trigger whose method raised, and the call returned
\* true and moved the machine
C17_Witness ==
    /\ agent.used
    /\ \E i \in 1..Len(agent.log) :
            /\ agent.log[i].trigger \notin DOMAIN InterStageMappings
            /\ ~DispatchSucceeds(agent.log[i].from.state, agent.log[i].to.state)
            /\ agent.log[i].ret
            /\ agent.log[i].to.state # agent.log[i].from.state

(***************************************************************************)
(* The completed stages                                                    *)
(***************************************************************************)
\* list p is the beginning of list q
IsPrefix(p, q) == Len(p) <= Len(q) /\ SubSeq(q, 1, Len(p)) = p

\* C18: every step keeps the entries completed_stages had and leaves a list without a
\* repeated stage that holds only names starting with content_.
C18_CompletedStagesGrow ==
    [][ /\ IsPrefix(completed_stages, completed_stages')
        /\ \A i, j \in 1..Len(completed_stages') :
                completed_stages'[i] = completed_stages'[j] => i = j
        /\ \A i \in 1..Len(completed_stages') : StartsWithContent(completed_stages'[i]) ]_vars

\* both content stages were left, and the machine is back in stage_selection by a
\* successful execute_transition
C18_Witness ==
    /\ Len(completed_stages) = 2
    /\ current_stage = "stage_selection"
    /\ call.op = "execute_transition"
    /\ call.ret

(***************************************************************************)
(* The stage context of the prompt                                         *)
(***************************************************************************)
\* C19: the context get_state_context_for_decision_agent returned reports the machine's
\* current state and active stage, its available_transitions are exactly the entries of
\* the get_available_transitions result that are allowed, its blocked_transitions exactly
\* those that are not, and no entry is in both lists.
C19_ContextSplitsTransitions ==
    (agent.used /\ agent.stage_context # None)
    => LET c == agent.stage_context[1].context
           all == agent.stage_context[1].transitions
       IN  /\ c.current_state = state
           /\ c.current_stage = current_stage
           /\ \A k \in 1..Len(all) :
                /\ all[k].allowed <=> InList(all[k], c.available_transitions)
                /\ ~all[k].allowed <=> InList(all[k], c.blocked_transitions)
           /\ \A i \in 1..Len(c.available_transitions) : InList(c.available_transitions[i], all)
           /\ \A i \in 1..Len(c.blocked_transitions) : InList(c.blocked_transitions[i], all)
           /\ Len(c.available_transitions) + Len(c.blocked_transitions) = Len(all)

\* a context was read whose two lists are both non-empty
C19_Witness ==
    /\ agent.used
    /\ agent.stage_context # None
    /\ agent.stage_context[1].context.available_transitions # <<>>
    /\ agent.stage_context[1].context.blocked_transitions # <<>>

(***************************************************************************)
(* The conversation turn counter                                           *)
(***************************************************************************)
\* the turn counters an exchange passed to the state machine: next_action's and, when the
\* stage context was read, the one of that read
TurnsPassed(a) ==
    {a.turn} \cup (IF a.stage_context # None
                   THEN {a.stage_context[1].context.turn_counter} ELSE {})

\* C20: every exchange advances the turn counter by exactly one, never lowers it, and
\* passes the state machine no turn lower than a turn an earlier exchange passed.
C20_TurnCounterAdvancesByOne ==
    [][ /\ turn' = turn + 1
        /\ \A t \in TurnsPassed(agent') :
            /\ t >= turn
            /\ agent.used => \A earlier \in TurnsPassed(agent) : t >= earlier ]_vars

\* three exchanges were completed, the last one streamed
C20_Witness ==
    /\ agent.used
    /\ turn = 3
    /\ agent.turn = 2
    /\ call.op = "stream"

(***************************************************************************)
(* ConversationalAgentsHandler: one conversational agent per user id       *)
(***************************************************************************)
UserIds == {"user_a", "user_b"}

\* GenericStateMachine(config): the machine add_state_machine_to_agent_state creates
NewStateMachine ==
    [ state |-> ConfigInitialState, current_stage |-> ConfigCurrentStage,
      stage_start_turn |-> 0,
      states |-> Get(Get(Stages, ConfigCurrentStage, <<>>), "states", <<>>),
      guard_rails |-> SetupGuardRails(ConfigCurrentStage), completed_stages |-> <<>>,
      cache |-> <<>>, last |-> -1, config_stages |-> DOMAIN Stages ]

\* ConversationalAgentSimple.__init__: the AgentState of a new agent
NewConversationalAgent ==
    [ state_machine |-> None, conversation_turn_counter |-> 0 ]

\* add_state_machine_to_agent_state: the agent's machine, created when it has none
AddStateMachineToAgentState(agent_state) ==
    IF agent_state.state_machine = None THEN NewStateMachine ELSE agent_state.state_machine[1]

\* instruct or stream on one agent: its AgentState afterwards
AgentAfterExchange(agent_state, instruction, llm, with_stream) ==
    Bind(agent_state.conversation_turn_counter, LAMBDA t :
    Bind(NextAction(AddStateMachineToAgentState(agent_state), t, instruction, llm), LAMBDA n :
    Bind(IF with_stream
         THEN AfterQuery(n.machine, GetStateContextForDecisionAgent(n.machine, NextTurnCounter(t)))
         ELSE IF n.type = "PROMPT_ADAPTION"
         THEN AfterQuery(n.machine, GetStateContextForDecisionAgent(n.machine, t))
         ELSE n.machine, LAMBDA after :
        [ state_machine |->
              Some([ after EXCEPT !.cache = LiveEntries(after.cache, NextTurnCounter(t)) ]),
          conversation_turn_counter |-> NextTurnCounter(t) ])))

\* the agents after an agent wrote its own state, every other entry shared with it
StoreAgent_Shared(agents, user_id, agent_state) ==
    [ u \in DOMAIN agents \cup {user_id} |-> agent_state ]

\* the agents after the agent of user_id wrote its own state
StoreAgent(agents, user_id, agent_state) ==
    [ u \in DOMAIN agents \cup {user_id} |->
        IF u = user_id THEN agent_state ELSE agents[u] ]

\* get_by_user_id: the agent of the user, a new one when the user has none
GetByUserId(agents, user_id) ==
    IF user_id \in DOMAIN agents THEN agents[user_id] ELSE NewConversationalAgent

\* the /init/ request: initialize_by_user_id deletes the user's agent and creates a new one
InitializeByUserId(user_id) ==
    /\ conversational_agents' =
            StoreAgent([ u \in DOMAIN conversational_agents \ {user_id} |->
                            conversational_agents[u] ],
                       user_id, NewConversationalAgent)
    /\ UNCHANGED <<calls, guard_in, guard_out, machine_vars, config_stages, turn, execs_in_turn, call, derailing_since,
                   last_switch_turn, seq_in, seq_out, rule_in, rule_out, agent>>

\* the /instruct/ request: get_by_user_id, then instruct or stream on the user's agent
InstructByUserId(user_id, instruction, with_stream) ==
    /\ \E a \in {GetByUserId(conversational_agents, user_id)} :
        /\ a.conversation_turn_counter < MaxHandlerTurn
        /\ \E llm \in LlmAnswers :
            conversational_agents' =
                StoreAgent(conversational_agents, user_id,
                           AgentAfterExchange(a, instruction, llm, with_stream))
    /\ UNCHANGED <<calls, guard_in, guard_out, machine_vars, config_stages, turn, execs_in_turn, call, derailing_since,
                   last_switch_turn, seq_in, seq_out, rule_in, rule_out, agent>>

HandlerNext ==
    \/ \E user_id \in UserIds : InitializeByUserId(user_id)
    \/ \E user_id \in UserIds, instruction \in Messages, with_stream \in BOOLEAN :
            InstructByUserId(user_id, instruction, with_stream)

SpecHandler == Init /\ [][HandlerNext]_vars

\* C21: a step that changes the conversation of one user id (its state, stage,
\* stage_start_turn, completed stages or turn counter) leaves the agent of every other user
\* id, whether it exists and everything it owns, as it was.
C21_ConversationsIsolated ==
    [][ \A u \in UserIds :
            (GetByUserId(conversational_agents', u) # GetByUserId(conversational_agents, u)
             \/ (u \in DOMAIN conversational_agents') # (u \in DOMAIN conversational_agents))
            => \A v \in UserIds \ {u} :
                /\ (v \in DOMAIN conversational_agents') = (v \in DOMAIN conversational_agents)
                /\ v \in DOMAIN conversational_agents
                    => conversational_agents'[v] = conversational_agents[v] ]_vars

\* both users have a conversation that left the initial state, in different places
C21_Witness ==
    /\ DOMAIN conversational_agents = UserIds
    /\ \A u \in UserIds : conversational_agents[u].state_machine # None
    /\ conversational_agents["user_a"].state_machine[1].state = "stimulus_present"
    /\ conversational_agents["user_b"].state_machine[1].state = "engagement_hook"
    /\ conversational_agents["user_a"].conversation_turn_counter = 2
    /\ conversational_agents["user_b"].conversation_turn_counter = 1

(***************************************************************************)
(* The turn limits of the active stage.                                    *)
(***************************************************************************)
\* the destination states of the configured transitions
ConfigDestinations == { TransitionsConfig[i].dest : i \in 1..Len(TransitionsConfig) }

\* C22: in a stage configured with relative_turns and max_turns_in_stage, once
\* turn - stage_start_turn exceeds max_turns_in_stage the stage's TurnLimitRule
\* denies every transition whose destination is not a closure state of the stage.
C22_RelativeLimitDeniesNonClosure ==
    \A i \in 1..Len(guard_rails) :
        ( /\ guard_rails[i].kind = "TurnLimitRule"
          /\ guard_rails[i].stage_relative
          /\ Truthy(guard_rails[i].max_turns_in_stage)
          /\ turn - stage_start_turn > guard_rails[i].max_turns_in_stage[1] )
        => \A d \in ConfigDestinations :
                ~InList(d, guard_rails[i].closure_states)
                => ~TurnLimitRuleCheck(guard_rails[i], state, d, turn,
                                       GuardRailContext(current_stage, stage_start_turn, NoContext))

(***************************************************************************)
(* The guard rails of a stage as functions of the stage configuration:     *)
(* _setup_guard_rails builds the rules of a configuration drawn from a     *)
(* bounded set and each rule's check, then is_transition_allowed, is       *)
(* applied to a transition drawn from bounded sets.                        *)
(***************************************************************************)
\* a key of the stage configuration that may be missing
OptionalKey(key, opt) == IF opt = None THEN <<>> ELSE key :> opt[1]

StageConfig(min_turns, max_turns, max_turns_in_stage, golden_path, closure_states, relative_turns, force_closure) ==
    OptionalKey("min_turns", min_turns) @@ OptionalKey("max_turns", max_turns)
    @@ OptionalKey("max_turns_in_stage", max_turns_in_stage)
    @@ OptionalKey("golden_path", golden_path)
    @@ OptionalKey("derailing_states",
                   IF golden_path = None THEN None ELSE Some(<<"conversation_repair">>))
    @@ [ closure_states |-> closure_states,
         relative_turns |-> relative_turns,
         guard_rails |-> [ force_closure_after_max_turns |-> force_closure,
                           max_derailing_time |-> 3,
                           force_golden_path_return |-> TRUE ] ]

\* the stage configurations: min_turns, max_turns with force_closure_after_max_turns,
\* relative_turns with max_turns_in_stage, a golden path or none, closure_states
GuardStageConfigs ==
    { StageConfig(min_turns, limit[1], relative[2], golden_path, closure_states,
                  relative[1], limit[2]) :
        min_turns \in {None, Some(2), Some(13)},
        limit \in {<<None, FALSE>>, <<Some(5), FALSE>>, <<Some(5), TRUE>>},
        relative \in {<<FALSE, None>>, <<TRUE, None>>, <<TRUE, Some(2)>>},
        golden_path \in {None, Some(<<"engagement_hook", "stimulus_present">>)},
        closure_states \in {<<>>, <<"onboarding_closure">>, <<"content_closure_pt">>} }

\* the turns asked about: the first turns of a conversation and the turns around the
\* closure thresholds 10 and 12
GuardTurns == { t \in 0..MaxTurn : t <= 3 \/ t >= 9 }

\* the transitions asked about: the stage and its start, the two states, the turn and
\* the context argument (none, or one that holds the turn the derailing started)
GuardCalls ==
    { [ used |-> TRUE, stage_config |-> stage_config, current_stage |-> stage,
        stage_start_turn |-> start_turn, current_state |-> current_state,
        dest_state |-> dest_state, turn_counter |-> turn_counter, context |-> context ] :
        stage_config \in GuardStageConfigs,
        stage \in {"onboarding", "content_politics_tech"},
        start_turn \in {0, 9},
        current_state \in {"engagement_hook", "conversation_repair"},
        dest_state \in {"onboarding_closure", "content_closure_pt", "stage_selection",
                        "engagement_hook"},
        turn_counter \in GuardTurns,
        context \in {NoContext, "derailing_start_turn" :> 0} }

GuardInit ==
    /\ MachineInit
    /\ config_stages = DOMAIN Stages
    /\ conversational_agents = <<>>
    /\ guard_in \in { c \in GuardCalls : c.stage_start_turn <= c.turn_counter }
    /\ guard_out = NoGuardCall
    /\ calls = NoCalls
    /\ seq_in = NoSeq
    /\ seq_out = "none"
    /\ rule_in = NoRuleCall
    /\ rule_out = NoRuleCall
    /\ agent = NoAgent

\* what the rules of the configuration answer: each rule's check on the context
\* is_transition_allowed hands it, and is_transition_allowed itself
GuardAnswer(c) ==
    Bind(SetupGuardRailsOf(c.stage_config), LAMBDA rules :
        [ used |-> TRUE,
          rules |-> rules,
          checks |-> [ i \in 1..Len(rules) |->
                        RuleCheck(rules[i], c.current_state, c.dest_state, c.turn_counter,
                                  GuardRailContext(c.current_stage, c.stage_start_turn,
                                                   c.context)).ok ],
          allowed |-> IsTransitionAllowed(rules, c.current_state, c.current_stage,
                                          c.stage_start_turn, c.dest_state,
                                          c.turn_counter, c.context) ])

GuardCheck ==
    /\ ~guard_out.used
    /\ guard_out' = GuardAnswer(guard_in)
    /\ UNCHANGED <<calls, guard_in, conversational_agents, config_stages, machine_vars, turn,
                   execs_in_turn, call, derailing_since, last_switch_turn, seq_in, seq_out,
                   rule_in, rule_out, agent>>

SpecGuardRail == GuardInit /\ [][GuardCheck]_vars

\* the verdict of the TurnLimitRule of the configuration asked about
TurnLimitVerdicts ==
    { guard_out.checks[i] : i \in { j \in 1..Len(guard_out.rules) :
                                        guard_out.rules[j].kind = "TurnLimitRule" } }

\* C23: for a stage configured with min_turns, the TurnLimitRule denies a transition
\* into a closure state of the stage at every turn below min_turns, whether the stage
\* counts turns absolutely or from its start.
C23_MinTurnsDeniesClosure ==
    ( /\ guard_out.used
      /\ "min_turns" \in DOMAIN guard_in.stage_config
      /\ guard_in.turn_counter < guard_in.stage_config.min_turns
      /\ InList(guard_in.dest_state, guard_in.stage_config.closure_states) )
    => TurnLimitVerdicts = {FALSE}

\* C24: in absolute mode, with the onboarding stage active and a non-empty closure
\* list, at every turn >= 12 TurnLimitRule.check allows every closure destination and
\* every destination of the inter-stage allow list and denies every other one,
\* whatever min_turns, max_turns and force_closure are; in any other stage the verdict
\* is that of the min_turns and force-closure checks alone.
C24_Turn12RuleInOnboarding ==
    ( /\ guard_out.used
      /\ ~guard_in.stage_config.relative_turns
      /\ guard_in.stage_config.closure_states # <<>> )
    => \A i \in 1..Len(guard_out.rules) :
        guard_out.rules[i].kind = "TurnLimitRule"
        => /\ ( guard_in.current_stage = "onboarding" /\ guard_in.turn_counter >= 12 )
              => guard_out.checks[i]
                    = ( \/ InList(guard_in.dest_state, guard_in.stage_config.closure_states)
                        \/ InList(guard_in.dest_state, InterStageAllowList) )
           /\ guard_in.current_stage # "onboarding"
              => guard_out.checks[i]
                    = ( /\ ~ ( /\ Truthy(guard_out.rules[i].min_turns)
                               /\ guard_in.turn_counter < guard_out.rules[i].min_turns[1]
                               /\ InList(guard_in.dest_state, guard_out.rules[i].closure_states) )
                        /\ ~ ( /\ Truthy(guard_out.rules[i].max_turns)
                               /\ guard_in.turn_counter >= guard_out.rules[i].max_turns[1]
                               /\ guard_out.rules[i].force_closure
                               /\ ~InList(guard_in.dest_state, guard_out.rules[i].closure_states) ) )

\* C25: for a stage with a golden path, GoldenPathRule.check allows the transition into
\* every configured closure state of the stage at every turn >= 10, also from a
\* derailing state whose derailing time has expired.
C25_GoldenPathAllowsClosure ==
    ( /\ guard_out.used
      /\ guard_in.turn_counter >= 10
      /\ InList(guard_in.dest_state, guard_in.stage_config.closure_states) )
    => \A i \in 1..Len(guard_out.rules) :
        guard_out.rules[i].kind = "GoldenPathRule" => guard_out.checks[i]

(***************************************************************************)
(* The order of the guard rails of the machine.                            *)
(***************************************************************************)
\* the rule classes whose check can return False
DenyingKinds == {"SequenceRule", "TurnLimitRule", "GoldenPathRule"}

\* the index of the first rule of guard_rails that denies the transition to d, 0 if none
FirstDenying(d) ==
    LET context == GuardRailContext(current_stage, stage_start_turn, NoContext)
        denying == { i \in 1..Len(guard_rails) :
                        ~RuleCheck(guard_rails[i], state, d, turn, context).ok }
    IN  IF denying = {} THEN 0 ELSE CHOOSE i \in denying : \A j \in denying : i <= j

\* C26: in the guard-rail list of the machine, at construction and after every stage
\* switch, the AbsoluteClosureRule stands before every rule that can deny
\* (SequenceRule, TurnLimitRule, GoldenPathRule), and is_transition_allowed returns
\* the reason of the first denying rule of the list, or allows when no rule denies.
C26_AbsoluteClosureRuleFirst ==
    /\ \A i, j \in 1..Len(guard_rails) :
            ( guard_rails[i].kind = "AbsoluteClosureRule" /\ guard_rails[j].kind \in DenyingKinds )
            => i < j
    /\ \A d \in ConfigDestinations :
            IsTransitionAllowed(guard_rails, state, current_stage, stage_start_turn, d, turn, NoContext)
                = IF FirstDenying(d) = 0
                  THEN [allowed |-> TRUE, reason |-> <<"Transition allowed">>]
                  ELSE [allowed |-> FALSE, reason |-> GetReason(guard_rails[FirstDenying(d)])]

(***************************************************************************)
(* The inter-stage triggers.                                               *)
(***************************************************************************)
\* C27: an inter-stage trigger that succeeds at the current turn leaves the machine in
\* the stage mapped to the trigger, in the mapped target state if the new stage lists
\* it and in the first listed state of the new stage otherwise, with a guard-rail list
\* that holds the rules of the new stage and no others; the stage it left is appended
\* to completed_stages exactly when it is a content stage other than the target
\* stage (and not yet in the list).
C27_InterStageSwitch ==
    \A trigger_name \in DOMAIN InterStageMappings :
        LET r == ExecuteTransitionResult(Self, trigger_name, turn)
            target_stage == InterStageMappings[trigger_name][1]
            target_state == InterStageMappings[trigger_name][2]
            new_states == Get(Get(Stages, target_stage, <<>>), "states", <<>>)
        IN  r.ret
            => /\ r.current_stage = target_stage
               /\ r.states = new_states
               /\ r.state = IF InList(target_state, new_states) THEN target_state
                             ELSE new_states[1]
               /\ r.guard_rails = SetupGuardRails(target_stage)
               /\ r.completed_stages
                    = IF StartsWithContent(current_stage) /\ current_stage # target_stage
                         /\ ~InList(current_stage, completed_stages)
                      THEN Append(completed_stages, current_stage)
                      ELSE completed_stages

\* the machine has left a content stage for stage_selection, which completed it, then
\* entered the offboarding stage, whose list lacks the mapped target state
C27_Witness ==
    /\ call.op = "execute_transition"
    /\ call.ret
    /\ current_stage = "offboarding"
    /\ state = "offboarding_summary"
    /\ stage_start_turn = turn
    /\ guard_rails = SetupGuardRails("offboarding")
    /\ completed_stages = <<"content_politics_tech">>

(***************************************************************************)
(* The decision rules as functions of their configuration and context:     *)
(* a rule drawn from a bounded set is asked about the context of a machine *)
(* that entered its stage and its current state at turns drawn from        *)
(* bounded sets.                                                           *)
(***************************************************************************)
\* the rules asked: closure rules with each kind of threshold (max_turns_ratio 1/2),
\* progression rules and a cycling prevention rule of a content stage
DecisionRuleSamples ==
    { ClosureRule("finish_content", conditions) :
        conditions \in { [ absolute_turn_limit |-> 12 ],
                         [ stage_turn_limit |-> 2 ],
                         [ max_turns_ratio |-> <<1, 2>> ],
                         [ stages |-> <<"content_politics_tech">>,
                           absolute_turn_limit |-> 12, stage_turn_limit |-> 3 ] } }
    \cup { DecisionProgressionRule([ source_states |-> <<"technology_deep_dive">>,
                                     min_turns_in_state |-> 2,
                                     target_patterns |-> <<"closure", "deep_dive">> ]),
           DecisionProgressionRule([ source_states |-> <<"content_intro_pt", "politics_deep_dive">>,
                                     target_patterns |-> <<"deep_dive">> ]) }
    \cup { CyclingPreventionRule([ cycling_states |-> <<"politics_deep_dive", "technology_deep_dive">>,
                                   max_cycling_turns |-> 3,
                                   escape_patterns |-> <<"closure", "deep_dive">> ]) }

\* the lists of available transitions handed to the rules
AvailableSamples ==
    { <<>>,
      << [trigger |-> "finish_content", dest |-> "content_closure_pt"] >>,
      << [trigger |-> "explore_politics", dest |-> "politics_deep_dive"],
         [trigger |-> "finish_content", dest |-> "content_closure_pt"] >>,
      << [trigger |-> "start_technology", dest |-> "technology_deep_dive"],
         [trigger |-> "start_politics", dest |-> "politics_deep_dive"] >>,
      << [trigger |-> "need_repair", dest |-> "conversation_repair"] >> }

\* the machines asked about: a content stage entered at start_turn, in a state entered
\* at entered_turn (the first state of the stage is entered with the stage)
DecisionRuleCalls ==
    { [ used |-> TRUE, rule |-> x[1], state_entered_turn |-> x[4],
        context |-> GetContextFromAgentState(
                        MachineIn("content_politics_tech", x[2], x[3], <<>>), x[5], x[6], "") ] :
        x \in { y \in DecisionRuleSamples
                        \X {"content_intro_pt", "technology_deep_dive", "politics_deep_dive"}
                        \X {0, 4} \X (0..MaxTurn) \X (0..MaxTurn) \X AvailableSamples :
                    /\ y[3] <= y[4]
                    /\ y[4] <= y[5]
                    /\ y[2] = "content_intro_pt" => y[4] = y[3] } }

DecisionRuleInit ==
    /\ MachineInit
    /\ config_stages = DOMAIN Stages
    /\ conversational_agents = <<>>
    /\ guard_in = NoGuardCall
    /\ guard_out = NoGuardCall
    /\ calls = NoCalls
    /\ seq_in = NoSeq
    /\ seq_out = "none"
    /\ rule_in \in DecisionRuleCalls
    /\ rule_out = NoRuleCall
    /\ agent = NoAgent

\* rule.applies(context) and rule.evaluate(context)
DecisionRuleAsk ==
    /\ rule_out = NoRuleCall
    /\ rule_out' = [ used |-> TRUE,
                     applies |-> DecisionRuleApplies(rule_in.rule, rule_in.context),
                     trigger |-> DecisionRuleEvaluate(rule_in.rule, rule_in.context) ]
    /\ UNCHANGED <<calls, guard_in, guard_out, conversational_agents, config_stages, machine_vars,
                   turn, execs_in_turn, call, derailing_since, last_switch_turn,
                   seq_in, seq_out, rule_in, agent>>

SpecDecisionRule == DecisionRuleInit /\ [][DecisionRuleAsk]_vars

\* the turns the machine has been in its current state
TurnsInState == rule_in.context.turn_counter - rule_in.state_entered_turn

\* counter has passed limit (strict) or has at least reached it
Crossed(counter, limit, strict) == IF strict THEN counter > limit ELSE counter >= limit

\* one of the configured thresholds of a closure rule is crossed in the context
ThresholdCrossed(conditions, context, strict) ==
    \/ /\ Get(conditions, "absolute_turn_limit", 0) # 0
       /\ Crossed(context.turn_counter, conditions.absolute_turn_limit, strict)
    \/ /\ Get(conditions, "stage_turn_limit", 0) # 0
       /\ Crossed(context.stage_relative_turns, conditions.stage_turn_limit, strict)
    \/ /\ Get(conditions, "max_turns_ratio", <<0, 1>>)[1] # 0
       /\ Crossed(context.stage_relative_turns * conditions.max_turns_ratio[2],
                  context.max_turns_in_stage * conditions.max_turns_ratio[1], strict)

\* the closure trigger of the rule is among the available transitions of the context
ClosureAvailable(rule, context) ==
    \E i \in 1..Len(context.available_transitions) :
        context.available_transitions[i].trigger = rule.closure_trigger

\* C28 as stated: a closure rule returns its closure trigger when one of its configured
\* thresholds (absolute turn limit, stage turn limit, max_turns_in_stage times
\* max_turns_ratio) has been exceeded and the closure trigger is available, and none
\* when no threshold has been exceeded or the trigger is not available.
C28_ClosurePastThreshold ==
    (rule_out.used /\ rule_in.rule.name = "closure_rule")
    => rule_out.trigger
        = IF ThresholdCrossed(rule_in.rule.conditions, rule_in.context, TRUE)
             /\ ClosureAvailable(rule_in.rule, rule_in.context)
          THEN Some(rule_in.rule.closure_trigger)
          ELSE None

\* C28: a closure rule returns its closure trigger when one of its configured
\* thresholds has been reached or exceeded (the counter is at least the threshold) and
\* the closure trigger is available, and none otherwise.
C28_ClosureFromThreshold ==
    (rule_out.used /\ rule_in.rule.name = "closure_rule")
    => rule_out.trigger
        = IF ThresholdCrossed(rule_in.rule.conditions, rule_in.context, FALSE)
             /\ ClosureAvailable(rule_in.rule, rule_in.context)
          THEN Some(rule_in.rule.closure_trigger)
          ELSE None

\* a closure rule with a ratio threshold forced the closure at exactly half of
\* max_turns_in_stage
C28_Witness ==
    /\ rule_out.used
    /\ rule_in.rule.name = "closure_rule"
    /\ "max_turns_ratio" \in DOMAIN rule_in.rule.conditions
    /\ rule_in.context.stage_relative_turns * 2 = rule_in.context.max_turns_in_stage
    /\ rule_out.trigger = Some("finish_content")

\* C29: the cycling prevention rule returns none while the machine has been in its
\* current cycling state for max_cycling_turns turns or fewer, however long the stage
\* has been active.
C29_NoEscapeBeforeCyclingLimit ==
    ( /\ rule_out.used
      /\ rule_in.rule.name = "cycling_prevention"
      /\ rule_out.applies
      /\ TurnsInState <= Get(rule_in.rule.config, "max_cycling_turns", 6) )
    => rule_out.trigger = None

\* C30: the progression rule applies exactly when the current state is one of its
\* source states; once the machine has been in that state for min_turns_in_state turns
\* it returns the trigger of the first available transition whose destination contains
\* a target pattern (patterns in configured order, transitions in list order); before
\* that, or when no destination matches, it returns none.
C30_ProgressionAfterDwellTime ==
    ( rule_out.used /\ rule_in.rule.name = "progression_rule" )
    => /\ rule_out.applies
            = InList(rule_in.context.current_state, Get(rule_in.rule.config, "source_states", <<>>))
       /\ rule_out.applies
            => rule_out.trigger
                = IF TurnsInState >= Get(rule_in.rule.config, "min_turns_in_state", 1)
                  THEN FirstMatchingPattern(Get(rule_in.rule.config, "target_patterns", <<>>), 1,
                                            rule_in.context.available_transitions)
                  ELSE None

(***************************************************************************)
(* The stage selection rule.                                               *)
(***************************************************************************)
\* the completed content stage the last message of the context names, if any
NamedCompletedStage(context) ==
    IF context.last_user_message = "psychologie"
       /\ InList("content_psychology_society", context.completed_stages)
    THEN Some("content_psychology_society")
    ELSE IF context.last_user_message = "politik"
            /\ InList("content_politics_tech", context.completed_stages)
    THEN Some("content_politics_tech")
    ELSE None

\* trigger is marked allowed in the available transitions of the context
AllowedInContext(context, trigger) ==
    \E i \in 1..Len(context.available_transitions) :
        /\ context.available_transitions[i].trigger = trigger
        /\ context.available_transitions[i].allowed

\* C31: in stage_selection, when the last message names a content area whose stage is
\* completed, the stage selection rule returns no trigger (evaluate_decision forces
\* nothing), also when every content stage is completed and finish_all_content is
\* allowed, and the context holds the requested stage under unavailable_stage_requested.
C31_UnavailableStageRequested ==
    ( /\ rule_out # NoRuleCall
      /\ rule_in.current_stage = "stage_selection"
      /\ NamedCompletedStage(rule_in) # None )
    => /\ rule_out.trigger = None
       /\ ~rule_out.forced
       /\ "unavailable_stage_requested" \in DOMAIN rule_in
       /\ rule_in.unavailable_stage_requested = NamedCompletedStage(rule_in)[1]

\* both content stages are completed, finish_all_content is allowed, the user asks for
\* politics again and nothing was forced
C31_Witness ==
    /\ rule_out # NoRuleCall
    /\ rule_in.current_stage = "stage_selection"
    /\ rule_in.last_user_message = "politik"
    /\ Len(rule_in.completed_stages) = 2
    /\ AllowedInContext(rule_in, "finish_all_content")
    /\ rule_out.trigger = None
    /\ rule_in.unavailable_stage_requested = "content_politics_tech"

\* the content stages of the configuration
ContentStages == { stage \in DOMAIN Stages : StartsWithContent(stage) }

\* an allowed content-stage (choose_*) transition remains in the context
ContentTransitionRemains(context) ==
    \E i \in 1..Len(context.available_transitions) :
        /\ StartsWithChoose(context.available_transitions[i].trigger)
        /\ context.available_transitions[i].allowed

\* evaluate_decision forced finish_all_content

ProgressionRule(sequence, turns_per_state) ==
    [ kind |-> "ProgressionRule", sequence |-> sequence, turns_per_state |-> turns_per_state ]

\* ProgressionRule.check: the rule does not block
ProgressionRuleCheck(rule, current_state, dest_state, turn_counter) == TRUE

ShouldForceProgression_After(rule, current_state, turn_counter) ==
    IF ~InList(current_state, rule.sequence)
    THEN None
    ELSE LET current_idx == IndexOf(current_state, rule.sequence)
             expected_progression_turn == (current_idx + 1) * rule.turns_per_state
         IN IF turn_counter > expected_progression_turn /\ current_idx < Len(rule.sequence) - 1
            THEN Some(rule.sequence[current_idx + 2])
            ELSE None

\* ProgressionRule.should_force_progression; current_idx is 0-based as in the
\* code, so sequence[current_idx + 1] of the code is rule.sequence[current_idx + 2]
ShouldForceProgression(rule, current_state, turn_counter) ==
    IF ~InList(current_state, rule.sequence)
    THEN None
    ELSE LET current_idx == IndexOf(current_state, rule.sequence)
             expected_progression_turn == (current_idx + 1) * rule.turns_per_state
         IN IF turn_counter >= expected_progression_turn /\ current_idx < Len(rule.sequence) - 1
            THEN Some(rule.sequence[current_idx + 2])
            ELSE None

\* GenericStateMachine.check_forced_transitions: progression_rule is None when
\* the machine has no such attribute
CheckForcedTransitions(progression_rule, current_state, turn_counter) ==
    IF progression_rule # None
    THEN ShouldForceProgression(progression_rule[1], current_state, turn_counter)
    ELSE None

ProgressionInit ==
    /\ MachineInit
    /\ config_stages = DOMAIN Stages
    /\ conversational_agents = <<>>
    /\ guard_in = NoGuardCall
    /\ guard_out = NoGuardCall
    /\ calls = NoCalls
    /\ seq_in \in [ used : {TRUE}, has_progression_rule : BOOLEAN, sequence : SeqSequences,
                    turns_per_state : 1..3, current_state : SeqNames,
                    dest_state : {"a", "y"}, turn_counter : 0..MaxTurn ]
    /\ seq_out = [ asked |-> FALSE ]
    /\ rule_in = NoRuleCall
    /\ rule_out = NoRuleCall
    /\ agent = NoAgent

ProgressionAsk ==
    /\ ~seq_out.asked
    /\ LET rule == ProgressionRule(seq_in.sequence, seq_in.turns_per_state)
       IN seq_out' = [ asked |-> TRUE,
                       check |-> ProgressionRuleCheck(rule, seq_in.current_state, seq_in.dest_state, seq_in.turn_counter),
                       forced |-> ShouldForceProgression(rule, seq_in.current_state, seq_in.turn_counter),
                       forced_transition |-> CheckForcedTransitions(IF seq_in.has_progression_rule THEN Some(rule) ELSE None,
                                                                    seq_in.current_state, seq_in.turn_counter) ]
    /\ UNCHANGED <<calls, guard_in, guard_out, conversational_agents, config_stages, machine_vars, turn, execs_in_turn, call, derailing_since, last_switch_turn, seq_in,
                   rule_in, rule_out, agent>>

SpecProgressionRule == ProgressionInit /\ [][ProgressionAsk]_vars

\* C33: the guard-rail ProgressionRule never denies, and should_force_progression
\* returns the element after the current state exactly when the current state is
\* at a position of the sequence that is not the last one and the turn counter
\* has reached position * turns_per_state (positions counted from 1); in every
\* other case it returns none.
C33_ShouldForceProgression ==
    seq_out.asked
    => /\ seq_out.check
       /\ \A n \in SeqNames :
            (seq_out.forced = Some(n))
            <=> \E i \in 1..(Len(seq_in.sequence) - 1) :
                    /\ seq_in.sequence[i] = seq_in.current_state
                    /\ seq_in.turn_counter >= i * seq_in.turns_per_state
                    /\ n = seq_in.sequence[i + 1]
       /\ (seq_out.forced = None)
            <=> ~\E i \in 1..(Len(seq_in.sequence) - 1) :
                    /\ seq_in.sequence[i] = seq_in.current_state
                    /\ seq_in.turn_counter >= i * seq_in.turns_per_state
       /\ seq_out.forced_transition = IF seq_in.has_progression_rule THEN seq_out.forced ELSE None

C33_Witness ==
    /\ seq_out.asked
    /\ seq_in.sequence = <<"a", "b", "c">>
    /\ seq_in.turns_per_state = 2
    /\ seq_in.current_state = "b"
    /\ seq_in.turn_counter = 4
    /\ seq_out.forced = Some("c")

\* C34: every trigger evaluate_decision returns with forced = true belongs to a
\* transition marked allowed in the available_transitions of the context given.
C34_ForcedTriggerIsAllowed ==
    (rule_out # NoRuleCall /\ rule_out.forced)
    => AllowedInContext(rule_in, rule_out.trigger[1])

SpecMissingStageMachine == InitMissingStage /\ [][Next]_vars

\* C36: a stage enters completed_stages only through an execute_transition that
\* returned true and switched away from that stage: a call that fails does not
\* mark the stage that was active when it was made.
C36_CompletedOnlyBySuccessfulSwitch ==
    [][ \A stage \in ContentStages :
            (InList(stage, completed_stages') /\ ~InList(stage, completed_stages))
            => /\ call'.op = "execute_transition"
               /\ call'.ret
               /\ current_stage = stage
               /\ current_stage' # stage ]_vars

\* the first transition of the configuration, in its order, with the trigger and a
\* source that matches the state; None when there is none
FirstConfigured(trigger_name, current_state) ==
    LET found == { i \in 1..Len(TransitionsConfig) :
                     /\ TransitionsConfig[i].trigger = trigger_name
                     /\ SourceMatches(TransitionsConfig[i].source, current_state) }
    IN  IF found = {} THEN None
        ELSE Some(TransitionsConfig[CHOOSE i \in found : \A j \in found : i <= j])

C38_QueriesLeaveNoTrace ==
    \* unqueried: the machine as it would be had no query been made before, with the
    \* same state, stage, stage_start_turn, completed stages and guard rails
    \A unqueried \in {[ Self EXCEPT !.cache = <<>>, !.last = -1 ]} :
      \A q \in {GetAvailableTransitions(Self, turn)} :
        \A fresh \in {GetAvailableTransitions(unqueried, turn)} :
          \A after \in {AfterQuery(Self, q)} :
            /\ after.state = state
            /\ after.current_stage = current_stage
            /\ after.stage_start_turn = stage_start_turn
            /\ after.completed_stages = completed_stages
            /\ after.guard_rails = guard_rails
            /\ \A i \in 1..Len(q.result) :
                q.result[i].trigger \notin DOMAIN InterStageMappings
                => q.result[i].allowed = fresh.result[i].allowed
            /\ \A trigger_name \in RequestedTriggers \ DOMAIN InterStageMappings :
                DispatchTrigger(Self, trigger_name, q).ret
                    = DispatchTrigger(unqueried, trigger_name, fresh).ret

(***************************************************************************)
(* Overlapping instruct calls on the agent of one user.  instruct is a     *)
(* coroutine: it runs without interruption up to the answer stream it      *)
(* awaits, where the event loop may start or resume another call on the    *)
(* same agent, and again from the end of the stream to its return.         *)
(***************************************************************************)
\* instruct from its first line to "async for chunk in chat_chain.astream": next_action
\* with the agent's turn counter, then the stage context for the prompt
InstructUntilStream(self, turn_counter, instruction, llm) ==
    Bind(NextAction(self, turn_counter, instruction, llm), LAMBDA n :
        [ machine |-> IF n.type = "PROMPT_ADAPTION"
                      THEN AfterQuery(n.machine,
                                      GetStateContextForDecisionAgent(n.machine, turn_counter))
                      ELSE n.machine,
          log |-> n.log ])

\* call c starts and runs up to the answer stream
OverlapStart(c, instruction, llm) ==
    /\ calls[c].pc = "idle"
    /\ turn < MaxHandlerTurn
    /\ \E n \in {InstructUntilStream(Self, turn, instruction, llm)} :
        /\ state' = n.machine.state
        /\ current_stage' = n.machine.current_stage
        /\ stage_start_turn' = n.machine.stage_start_turn
        /\ states' = n.machine.states
        /\ guard_rails' = n.machine.guard_rails
        /\ completed_stages' = n.machine.completed_stages
        /\ transition_cache' = n.machine.cache
        /\ last_cache_turn' = n.machine.last
        /\ calls' = [ calls EXCEPT ![c] =
                        [ pc |-> "awaiting", turn_counter |-> turn,
                          executed |-> (n.log # <<>>),
                          overlapped |-> \E d \in CallIds : calls[d].pc = "awaiting" ] ]
    /\ UNCHANGED <<guard_in, guard_out, conversational_agents, config_stages, turn,
                   execs_in_turn, call, derailing_since, last_switch_turn,
                   seq_in, seq_out, rule_in, rule_out, agent>>

\* the answer stream of call c ended: self.state.conversation_turn_counter += 1, return
OverlapFinish(c) ==
    /\ calls[c].pc = "awaiting"
    /\ turn' = NextTurnCounter(turn)
    /\ transition_cache' = LiveEntries(transition_cache, NextTurnCounter(turn))
    /\ calls' = [ calls EXCEPT ![c].pc = "done" ]
    /\ UNCHANGED <<guard_in, guard_out, conversational_agents, config_stages, state,
                   current_stage, states, stage_start_turn, completed_stages, guard_rails,
                   last_cache_turn, execs_in_turn, call, derailing_since, last_switch_turn,
                   seq_in, seq_out, rule_in, rule_out, agent>>

\* both calls have returned: the next two requests may come
OverlapReturn ==
    /\ \A c \in CallIds : calls[c].pc = "done"
    /\ calls' = NoCalls
    /\ UNCHANGED <<guard_in, guard_out, conversational_agents, config_stages, machine_vars,
                   turn, execs_in_turn, call, derailing_since, last_switch_turn,
                   seq_in, seq_out, rule_in, rule_out, agent>>

OverlapNext ==
    \/ \E c \in CallIds : \E instruction \in Messages : \E llm \in LlmAnswers :
            OverlapStart(c, instruction, llm)
    \/ \E c \in CallIds : OverlapFinish(c)
    \/ OverlapReturn

SpecOverlap == Init /\ [][OverlapNext]_vars

\* C39: two instruct calls of one user that overlap never both run their decision
\* step and execute transitions with the same conversation_turn_counter, and when
\* both have finished the counter has advanced by exactly two.
C39_OverlappingCallsDistinctTurns ==
    /\ \A c, d \in CallIds :
            ( /\ c # d
              /\ calls[c].pc # "idle" /\ calls[d].pc # "idle"
              /\ calls[d].overlapped
              /\ calls[c].executed /\ calls[d].executed )
            => calls[c].turn_counter # calls[d].turn_counter
    /\ (\A c \in CallIds : calls[c].pc = "done")
       => \E c \in CallIds :
            /\ \A d \in CallIds : calls[c].turn_counter <= calls[d].turn_counter
            /\ turn = calls[c].turn_counter + 2

====
